---- MODULE Spec2Model ----
(***************************************************************************)
(* Model of example-app-invoices: the HttpsEnforcingAPL wrapper            *)
(* (src/lib/https-enforcing-apl.ts) around a backing APL.                  *)
(*                                                                         *)
(* Endpoint identities (saleorApiUrl) are character sequences, so that the *)
(* scheme rewrites act on characters as String.replace does.  The backing  *)
(* APL is an ordered collection of AuthData records keyed by saleorApiUrl. *)
(* Every adapter call is a process: an action is the code that runs from   *)
(* one await to the next.                                                  *)
(***************************************************************************)
EXTENDS Naturals, Sequences, FiniteSets

\* ------------------------------------------------------------------ bounds
NumCallers == 2     \* adapter calls that may be in flight together
NumCreds   == 2     \* distinct credentials (appId / token / jwks triples)
MaxLegacy  == 2     \* records the backing APL holds from before the wrapper

Callers == 1..NumCallers
CredIds == 1..NumCreds

\* ----------------------------------------------------------------- strings
HttpMarker  == <<"h", "t", "t", "p", ":", "/", "/">>
HttpsMarker == <<"h", "t", "t", "p", "s", ":", "/", "/">>
HostX       == <<"x">>

StartsWith(s, p) == Len(s) >= Len(p) /\ SubSeq(s, 1, Len(p)) = p

\* The position of the first occurrence of p in s, 0 when there is none.
FirstIndexOf(s, p) ==
  LET hits == {i \in 1..(Len(s) - Len(p) + 1) : SubSeq(s, i, i + Len(p) - 1) = p}
  IN IF hits = {} THEN 0 ELSE CHOOSE i \in hits : \A j \in hits : i <= j

\* String.prototype.replace(from, to) with a string pattern: rewrites the
\* first occurrence of `from`, wherever it is.
ReplaceFirst(s, from, to) ==
  LET i == FirstIndexOf(s, from)
  IN IF i = 0 THEN s
     ELSE SubSeq(s, 1, i - 1) \o to \o SubSeq(s, i + Len(from), Len(s))

\* Faulty variant: the pattern has lost its ^ anchor.
ReplacePrefix_unanchored(s, from, to) == ReplaceFirst(s, from, to)

\* String.prototype.replace(/^from/, to): rewrites a leading `from` only.
ReplacePrefix(s, from, to) ==
  IF StartsWith(s, from) THEN to \o SubSeq(s, Len(from) + 1, Len(s)) ELSE s

\* Faulty variant: the URL is used as given, the HTTP marker is not rewritten.
httpsUrl_asGiven(saleorApiUrl) == saleorApiUrl

\* Faulty variant: every URL is taken for the URL of the one host.
httpsUrl_oneHost(saleorApiUrl) == HttpsMarker \o HostX

\* saleorApiUrl.replace(/^http:\/\//, "https://")
httpsUrl(saleorApiUrl) == ReplacePrefix(saleorApiUrl, HttpMarker, HttpsMarker)

\* Faulty variant: the HTTP variant is not derived from an HTTPS URL.
httpUrl_asGiven(saleorApiUrl) == saleorApiUrl

\* saleorApiUrl.replace(/^https:\/\//, "http://")
httpUrl(saleorApiUrl) == ReplacePrefix(saleorApiUrl, HttpsMarker, HttpMarker)

\* The identities the calls are made with: one host in the insecure scheme,
\* in the secure scheme and with no recognized scheme.
Identities == {HttpMarker \o HostX, HttpsMarker \o HostX, HostX}

\* ----------------------------------------------------------------- records
AuthData(i, u) == [appId |-> i, saleorApiUrl |-> u, token |-> i, jwks |-> i]
AuthDatas == {AuthData(i, u) : i \in CredIds, u \in Identities}

\* An optional value is a sequence of length at most one; undefined is <<>>.
undefined == <<>>

\* Faulty variant: the record is passed on as it came.
enforceHttps_asGiven(authData) == authData

\* Faulty variant: the copy loses a field of the record.
enforceHttps_dropsJwks(authData) ==
  [authData EXCEPT !.saleorApiUrl = httpsUrl(@), !.jwks = 0]

enforceHttps(authData) ==
  [authData EXCEPT !.saleorApiUrl = httpsUrl(authData.saleorApiUrl)]

\* ------------------------------------------------------------- backing APL
\* The backing APL holds one record per saleorApiUrl, in insertion order.
IndexOf(s, key) ==
  IF \E i \in 1..Len(s) : s[i].saleorApiUrl = key
  THEN CHOOSE i \in 1..Len(s) :
         /\ s[i].saleorApiUrl = key
         /\ \A j \in 1..(i - 1) : s[j].saleorApiUrl # key
  ELSE 0

baseApl_get(s, key) ==
  IF IndexOf(s, key) = 0 THEN undefined ELSE <<s[IndexOf(s, key)]>>

baseApl_set(s, authData) ==
  IF IndexOf(s, authData.saleorApiUrl) = 0
  THEN Append(s, authData)
  ELSE [s EXCEPT ![IndexOf(s, authData.saleorApiUrl)] = authData]

baseApl_delete(s, key) == SelectSeq(s, LAMBDA r : r.saleorApiUrl # key)

baseApl_getAll(s) == s

Holds(s, key) == baseApl_get(s, key) # undefined

\* Stores holding n records under pairwise different keys.
RECURSIVE StoresOfLen(_)
StoresOfLen(n) ==
  IF n = 0 THEN {<<>>}
  ELSE UNION {{Append(s, r) : r \in {q \in AuthDatas : ~Holds(s, q.saleorApiUrl)}} :
              s \in StoresOfLen(n - 1)}

\* What registrations made directly on the backing APL, before it was
\* wrapped, may have left: records under HTTP, HTTPS or scheme-less keys.
LegacyStores == UNION {StoresOfLen(n) : n \in 0..MaxLegacy}

\* ------------------------------------------------------------------- state
VARIABLES
  store,    \* the backing APL's records, in its own order
  calls,    \* per caller: the adapter call it is in and that call's locals
  prev,     \* a sequential client's previous call (its arguments and outcome)
  canon,    \* one evaluation of the two URL rewrites on an input string
  patcher,  \* the module cache, the pending timers and the passes run so far
  probes,   \* which probes the backing APL implements and what they answer
  handler,  \* one webhook request on its way through a handler
  watch     \* what the backing APL held all through a get that is under way

vars == <<store, calls, prev, canon, patcher, probes, handler, watch>>

\* A call's locals.  queries / handed / deletes list the arguments of the
\* baseApl.get / set / delete calls it has issued, in order; sub holds the
\* state of the two promises given to Promise.allSettled; warns the
\* requestedUrl of each logger.warn.
NoCall ==
  [op |-> "none", pc |-> "idle", url |-> <<>>, rec |-> undefined,
   authData |-> undefined, queries |-> <<>>, handed |-> <<>>,
   deletes |-> <<>>, sub |-> <<>>, warns |-> <<>>,
   outcome |-> "none", result |-> <<>>,
   thrown |-> "none", error |-> "none"]

\* The errors a backing APL call may reject with.
StoreErrors == {"ECONNRESET", "ETIMEDOUT"}

\* Faulty variant: the adapter replaces the error by one of its own.
rethrown_wrapped(e) == "HttpsEnforcingAPLError"

\* An awaited promise that rejects inside an async method with no try/catch
\* around it rejects the method's own promise with the same error.
rethrown(e) == e

\* The call ends rejected because the backing APL threw e.
Rejected(call, e) ==
  [call EXCEPT !.pc = "done", !.outcome = "rejected",
               !.thrown = e, !.error = rethrown(e)]

Free(c) == calls[c].pc \in {"idle", "done"}

\* What a client that awaits each call before making the next knows of the
\* call it made before: `await apl.set(r); await apl.get(u)`.
Summary(call) ==
  [op |-> call.op, url |-> call.url, rec |-> call.rec, outcome |-> call.outcome,
   found |-> call.result # <<>>]

\* The parts of the state the adapter's calls never touch, at rest.
NoCanon ==
  [pc |-> "idle", input |-> <<>>, enforced |-> <<>>, normalized |-> <<>>,
   again |-> <<>>, firstKeys |-> <<>>]
NoPatcher == "unused"
NoProbes == "unused"
NoHandler == "unused"
NoWatch == "unused"

Init ==
  /\ store \in LegacyStores
  /\ calls = [c \in Callers |-> NoCall]
  /\ prev = Summary(NoCall)
  /\ canon = NoCanon
  /\ patcher = NoPatcher
  /\ probes = NoProbes
  /\ handler = NoHandler
  /\ watch = NoWatch

InitFresh ==
  /\ store = <<>>
  /\ calls = [c \in Callers |-> NoCall]
  /\ prev = Summary(NoCall)
  /\ canon = NoCanon
  /\ patcher = NoPatcher
  /\ probes = NoProbes
  /\ handler = NoHandler
  /\ watch = NoWatch

\* A call begins: a sequential client moves on from the call before it.
Track(c, sequential) ==
  /\ prev' = IF sequential THEN Summary(calls[c]) ELSE prev
  /\ UNCHANGED <<canon, patcher, probes, handler, watch>>

\* --------------------------------------------------------------------- get
\* Faulty variant: the record found is returned as the backing APL gave it.
get_result_raw(authData) == authData

\* Line 44: const result = authData ? this.enforceHttps(authData) : undefined
get_result(authData) ==
  IF authData # undefined THEN <<enforceHttps(authData[1])>> ELSE undefined

\* Faulty variant: a miss is returned without the warning.
get_return_silent(call, authData) ==
  [call EXCEPT !.pc = "done", !.outcome = "resolved",
               !.authData = authData,
               !.result = get_result(authData)]

\* Lines 44-52: the result, the warning when there is none, the return.
get_return(call, authData) ==
  [call EXCEPT !.pc = "done", !.outcome = "resolved",
               !.authData = authData,
               !.result = get_result(authData),
               !.warns = IF get_result(authData) = undefined
                         THEN Append(@, call.url) ELSE @]

\* Faulty variant: the first query is made with the URL as given.
get_begin_asGiven(c, saleorApiUrl) ==
  /\ Free(c)
  /\ calls' = [calls EXCEPT ![c] =
       [NoCall EXCEPT !.op = "get", !.pc = "get33", !.url = saleorApiUrl,
                      !.queries = <<saleorApiUrl>>]]
  /\ UNCHANGED store

\* Lines 29-33: the two variants are computed and the HTTPS one is queried.
get_begin(c, saleorApiUrl) ==
  /\ Free(c)
  /\ calls' = [calls EXCEPT ![c] =
       [NoCall EXCEPT !.op = "get", !.pc = "get33", !.url = saleorApiUrl,
                      !.queries = <<httpsUrl(saleorApiUrl)>>]]
  /\ UNCHANGED store

\* Lines 33-36: the first answer; on a miss the HTTP variant is queried.
get_await33(c) ==
  /\ calls[c].pc = "get33"
  /\ LET authData == baseApl_get(store, calls[c].queries[1]) IN
     calls' = [calls EXCEPT ![c] =
       IF authData = undefined
       THEN [@ EXCEPT !.pc = "get36", !.authData = authData,
                      !.queries = Append(@, httpUrl(calls[c].url))]
       ELSE get_return(@, authData)]
  /\ UNCHANGED store

\* Faulty variant: the third query is made with the URL without its scheme.
get_await36_thirdBare(c) ==
  /\ calls[c].pc = "get36"
  /\ LET authData == baseApl_get(store, calls[c].queries[2])
         bare == ReplacePrefix(ReplacePrefix(calls[c].url, HttpsMarker, <<>>),
                               HttpMarker, <<>>)
     IN calls' = [calls EXCEPT ![c] =
          IF authData = undefined
          THEN [@ EXCEPT !.pc = "get41", !.authData = authData,
                         !.queries = Append(@, bare)]
          ELSE get_return(@, authData)]
  /\ UNCHANGED store

\* Faulty variant: a record found under the HTTP key is moved to the HTTPS
\* key before it is returned.
get_await36_migrates(c) ==
  /\ calls[c].pc = "get36"
  /\ LET authData == baseApl_get(store, calls[c].queries[2]) IN
     /\ calls' = [calls EXCEPT ![c] =
          IF authData = undefined
          THEN [@ EXCEPT !.pc = "get41", !.authData = authData,
                         !.queries = Append(@, calls[c].url)]
          ELSE get_return(@, authData)]
     /\ store' = IF authData = undefined THEN store
                 ELSE baseApl_set(baseApl_delete(store, calls[c].queries[2]),
                                  enforceHttps(authData[1]))

\* Lines 36-41: the second answer; on a miss the URL as given is queried.
get_await36(c) ==
  /\ calls[c].pc = "get36"
  /\ LET authData == baseApl_get(store, calls[c].queries[2]) IN
     calls' = [calls EXCEPT ![c] =
       IF authData = undefined
       THEN [@ EXCEPT !.pc = "get41", !.authData = authData,
                      !.queries = Append(@, calls[c].url)]
       ELSE get_return(@, authData)]
  /\ UNCHANGED store

\* Faulty variant: the third answer is not looked at, the call ends in a miss.
get_await41_miss(c) ==
  /\ calls[c].pc = "get41"
  /\ calls' = [calls EXCEPT ![c] = get_return(@, undefined)]
  /\ UNCHANGED store

\* Lines 41-52: the third answer.
get_await41(c) ==
  /\ calls[c].pc = "get41"
  /\ calls' = [calls EXCEPT ![c] =
       get_return(@, baseApl_get(store, calls[c].queries[3]))]
  /\ UNCHANGED store

\* Faulty variant: a query that rejects is taken for a miss and get goes on
\* to the next key.
get_throw_asMiss(c, e) ==
  /\ calls[c].pc \in {"get33", "get36", "get41"}
  /\ calls' = [calls EXCEPT ![c] =
       IF calls[c].pc = "get33"
       THEN [@ EXCEPT !.pc = "get36", !.thrown = e,
                      !.queries = Append(@, httpUrl(calls[c].url))]
       ELSE IF calls[c].pc = "get36"
       THEN [@ EXCEPT !.pc = "get41", !.thrown = e,
                      !.queries = Append(@, calls[c].url)]
       ELSE [get_return(@, undefined) EXCEPT !.thrown = e]]
  /\ UNCHANGED store

\* An awaited baseApl.get rejects: nothing in get catches it.
get_throw(c, e) ==
  /\ calls[c].pc \in {"get33", "get36", "get41"}
  /\ calls' = [calls EXCEPT ![c] = Rejected(@, e)]
  /\ UNCHANGED store

\* --------------------------------------------------------------------- set
\* Faulty variant: the record is handed to the backing APL as it came.
set_begin_raw(c, authData) ==
  /\ Free(c)
  /\ calls' = [calls EXCEPT ![c] =
       [NoCall EXCEPT !.op = "set", !.pc = "set56", !.rec = <<authData>>,
                      !.handed = <<authData>>]]
  /\ UNCHANGED store

\* Line 56: this.baseApl.set(this.enforceHttps(authData))
set_begin(c, authData) ==
  /\ Free(c)
  /\ calls' = [calls EXCEPT ![c] =
       [NoCall EXCEPT !.op = "set", !.pc = "set56", !.rec = <<authData>>,
                      !.handed = <<enforceHttps(authData)>>]]
  /\ UNCHANGED store

set_await56(c) ==
  /\ calls[c].pc = "set56"
  /\ store' = baseApl_set(store, calls[c].handed[1])
  /\ calls' = [calls EXCEPT ![c] = [@ EXCEPT !.pc = "done", !.outcome = "resolved"]]

set_throw(c, e) ==
  /\ calls[c].pc = "set56"
  /\ calls' = [calls EXCEPT ![c] = Rejected(@, e)]
  /\ UNCHANGED store

\* ------------------------------------------------------------------ delete
\* Faulty variant: only the HTTPS key is deleted.
delete_targets_httpsOnly(saleorApiUrl) == <<httpsUrl(saleorApiUrl)>>

\* Lines 61-66: the keys of the two baseApl.delete calls, in array order.
delete_targets(saleorApiUrl) == <<httpsUrl(saleorApiUrl), saleorApiUrl>>

\* Faulty variant: the wait ends with the first promise to settle (Promise.race).
allSettled_race(sub) == \E i \in 1..Len(sub) : sub[i] # "pending"

\* Promise.allSettled fulfils once no promise is pending, whatever each did.
allSettled(sub) == \A i \in 1..Len(sub) : sub[i] # "pending"

\* Lines 61-66: both baseApl.delete calls are made while the array literal
\* is evaluated, before Promise.allSettled is awaited.
delete_begin(c, saleorApiUrl) ==
  /\ Free(c)
  /\ calls' = [calls EXCEPT ![c] =
       [NoCall EXCEPT !.op = "delete", !.pc = "delete63", !.url = saleorApiUrl,
                      !.deletes = delete_targets(saleorApiUrl),
                      !.sub = [i \in 1..Len(delete_targets(saleorApiUrl)) |-> "pending"]]]
  /\ UNCHANGED store

\* One of the two baseApl.delete promises fulfils: the backing APL drops the key.
delete_fulfil(c, i) ==
  /\ calls[c].pc = "delete63"
  /\ i \in 1..Len(calls[c].sub)
  /\ calls[c].sub[i] = "pending"
  /\ store' = baseApl_delete(store, calls[c].deletes[i])
  /\ calls' = [calls EXCEPT ![c] = [@ EXCEPT !.sub[i] = "fulfilled"]]

\* One of the two baseApl.delete promises rejects.
delete_reject(c, i) ==
  /\ calls[c].pc = "delete63"
  /\ i \in 1..Len(calls[c].sub)
  /\ calls[c].sub[i] = "pending"
  /\ calls' = [calls EXCEPT ![c] = [@ EXCEPT !.sub[i] = "rejected"]]
  /\ UNCHANGED store

\* Lines 63-67: the await on Promise.allSettled resumes and delete returns.
delete_await63(c) ==
  /\ calls[c].pc = "delete63"
  /\ allSettled(calls[c].sub)
  /\ calls' = [calls EXCEPT ![c] = [@ EXCEPT !.pc = "done", !.outcome = "resolved"]]
  /\ UNCHANGED store

\* ------------------------------------------------------------------ getAll
\* Faulty variant: the records are handed on as the backing APL gave them.
getAll_map_raw(allAuthData) == allAuthData

getAll_map(allAuthData) == [i \in 1..Len(allAuthData) |-> enforceHttps(allAuthData[i])]

getAll_begin(c) ==
  /\ Free(c)
  /\ calls' = [calls EXCEPT ![c] = [NoCall EXCEPT !.op = "getAll", !.pc = "getAll70"]]
  /\ UNCHANGED store

getAll_await70(c) ==
  /\ calls[c].pc = "getAll70"
  /\ calls' = [calls EXCEPT ![c] =
       [@ EXCEPT !.pc = "done", !.outcome = "resolved",
                 !.result = getAll_map(baseApl_getAll(store))]]
  /\ UNCHANGED store

getAll_throw(c, e) ==
  /\ calls[c].pc = "getAll70"
  /\ calls' = [calls EXCEPT ![c] = Rejected(@, e)]
  /\ UNCHANGED store

\* ---------------------------------------------------------- specifications
Step(c, sequential) ==
  \/ \E u \in Identities : get_begin(c, u) /\ Track(c, sequential)
  \/ get_await33(c) /\ UNCHANGED <<prev, canon, patcher, probes, handler, watch>>
  \/ get_await36(c) /\ UNCHANGED <<prev, canon, patcher, probes, handler, watch>>
  \/ get_await41(c) /\ UNCHANGED <<prev, canon, patcher, probes, handler, watch>>
  \/ \E e \in StoreErrors : get_throw(c, e) /\ UNCHANGED <<prev, canon, patcher, probes, handler, watch>>
  \/ \E a \in AuthDatas : set_begin(c, a) /\ Track(c, sequential)
  \/ set_await56(c) /\ UNCHANGED <<prev, canon, patcher, probes, handler, watch>>
  \/ \E e \in StoreErrors : set_throw(c, e) /\ UNCHANGED <<prev, canon, patcher, probes, handler, watch>>
  \/ \E u \in Identities : delete_begin(c, u) /\ Track(c, sequential)
  \/ \E i \in 1..2 : delete_fulfil(c, i) /\ UNCHANGED <<prev, canon, patcher, probes, handler, watch>>
  \/ \E i \in 1..2 : delete_reject(c, i) /\ UNCHANGED <<prev, canon, patcher, probes, handler, watch>>
  \/ delete_await63(c) /\ UNCHANGED <<prev, canon, patcher, probes, handler, watch>>
  \/ getAll_begin(c) /\ Track(c, sequential)
  \/ getAll_await70(c) /\ UNCHANGED <<prev, canon, patcher, probes, handler, watch>>
  \/ \E e \in StoreErrors : getAll_throw(c, e) /\ UNCHANGED <<prev, canon, patcher, probes, handler, watch>>

\* Callers whose calls overlap.
Next == \E c \in Callers : Step(c, FALSE)

\* One client making its calls one after the other, each awaited.
NextSeq == Step(1, TRUE)

\* Concurrent callers over a backing APL that may hold legacy records.
Spec == Init /\ [][Next]_vars

\* Concurrent callers over a backing APL that starts empty.
SpecFresh == InitFresh /\ [][Next]_vars

\* A sequential client over a backing APL that may hold legacy records.
SpecSeq == Init /\ [][NextSeq]_vars

\* --------------------------------------------------- two installations
\* A second host: the identities of another Saleor instance.
HostY == <<"y">>
IdentitiesY == {HttpMarker \o HostY, HttpsMarker \o HostY, HostY}
AuthDatasY == {AuthData(i, u) : i \in CredIds, u \in IdentitiesY}

\* Stores holding n records of a pool under pairwise different keys.
RECURSIVE StoresOver(_, _)
StoresOver(pool, n) ==
  IF n = 0 THEN {<<>>}
  ELSE UNION {{Append(s, r) : r \in {q \in pool : ~Holds(s, q.saleorApiUrl)}} :
              s \in StoresOver(pool, n - 1)}

\* The backing APL holds legacy records of either installation.
InitHosts ==
  /\ store \in UNION {StoresOver(AuthDatas \cup AuthDatasY, n) : n \in 0..MaxLegacy}
  /\ calls = [c \in Callers |-> NoCall]
  /\ prev = Summary(NoCall)
  /\ canon = NoCanon
  /\ patcher = NoPatcher
  /\ probes = NoProbes
  /\ handler = NoHandler
  /\ watch = NoWatch

\* A client of one installation registering and unregistering it.
WriterStep(c, ids, recs) ==
  \/ \E a \in recs : set_begin(c, a) /\ UNCHANGED <<prev, canon, patcher, probes, handler, watch>>
  \/ set_await56(c) /\ UNCHANGED <<prev, canon, patcher, probes, handler, watch>>
  \/ \E u \in ids : delete_begin(c, u) /\ UNCHANGED <<prev, canon, patcher, probes, handler, watch>>
  \/ \E i \in 1..2 : delete_fulfil(c, i) /\ UNCHANGED <<prev, canon, patcher, probes, handler, watch>>
  \/ \E i \in 1..2 : delete_reject(c, i) /\ UNCHANGED <<prev, canon, patcher, probes, handler, watch>>
  \/ delete_await63(c) /\ UNCHANGED <<prev, canon, patcher, probes, handler, watch>>

\* A client of one installation looking its record up.
ReaderStep(c, ids) ==
  \/ \E u \in ids : get_begin(c, u) /\ UNCHANGED <<prev, canon, patcher, probes, handler, watch>>
  \/ get_await33(c) /\ UNCHANGED <<prev, canon, patcher, probes, handler, watch>>
  \/ get_await36(c) /\ UNCHANGED <<prev, canon, patcher, probes, handler, watch>>
  \/ get_await41(c) /\ UNCHANGED <<prev, canon, patcher, probes, handler, watch>>

\* Caller 1 writes and deletes for the first installation while caller 2
\* reads for the second.
NextHosts == WriterStep(1, Identities, AuthDatas) \/ ReaderStep(2, IdentitiesY)

SpecHosts == InitHosts /\ [][NextHosts]_vars

\* ------------------------------------------------- the two URL rewrites
\* Faulty variant: the replace is made without the startsWith test.
normalizeSaleorApiUrl_untested(saleorApiUrl) ==
  ReplaceFirst(saleorApiUrl, HttpMarker, HttpsMarker)

\* normalizeSaleorApiUrl: a string-pattern replace behind a startsWith test.
normalizeSaleorApiUrl(saleorApiUrl) ==
  IF StartsWith(saleorApiUrl, HttpMarker)
  THEN ReplaceFirst(saleorApiUrl, HttpMarker, HttpsMarker)
  ELSE saleorApiUrl

\* The strings the rewrites are evaluated on: up to MaxPieces pieces, each a
\* scheme marker, a host character or a slash, in any order.
MaxPieces == 3
Pieces == {HttpMarker, HttpsMarker, HostX, <<"/">>}
RECURSIVE Concats(_)
Concats(n) ==
  IF n = 0 THEN {<<>>}
  ELSE LET shorter == Concats(n - 1)
       IN shorter \cup {s \o q : s \in shorter, q \in Pieces}
UrlStrings == Concats(MaxPieces)

InitCanon ==
  /\ store = <<>>
  /\ calls = [c \in Callers |-> NoCall]
  /\ prev = Summary(NoCall)
  /\ patcher = NoPatcher
  /\ probes = NoProbes
  /\ handler = NoHandler
  /\ watch = NoWatch
  /\ canon \in {[NoCanon EXCEPT !.pc = "given", !.input = <<s>>] : s \in UrlStrings}

\* enforceHttps applied to a record carrying the input as its saleorApiUrl.
canon_enforceHttps ==
  /\ canon.pc = "given"
  /\ canon.enforced = <<>>
  /\ canon' = [canon EXCEPT
       !.enforced = <<enforceHttps(AuthData(1, canon.input[1])).saleorApiUrl>>]
  /\ UNCHANGED <<store, calls, prev, patcher, probes, handler, watch>>

\* normalizeSaleorApiUrl applied to the input.
canon_normalize ==
  /\ canon.pc = "given"
  /\ canon.normalized = <<>>
  /\ canon' = [canon EXCEPT
       !.normalized = <<normalizeSaleorApiUrl(canon.input[1])>>]
  /\ UNCHANGED <<store, calls, prev, patcher, probes, handler, watch>>

\* enforceHttps applied to a record that enforceHttps returned.
canon_again ==
  /\ canon.enforced # <<>>
  /\ canon.again = <<>>
  /\ canon' = [canon EXCEPT
       !.again = <<enforceHttps(AuthData(1, canon.enforced[1])).saleorApiUrl>>]
  /\ UNCHANGED <<store, calls, prev, patcher, probes, handler, watch>>

\* The key of get's first query, for the input as it came and for the input
\* as a handler passes it on, normalized.
canon_firstKeys ==
  /\ canon.normalized # <<>>
  /\ canon.firstKeys = <<>>
  /\ canon' = [canon EXCEPT
       !.firstKeys = <<httpsUrl(canon.input[1]), httpsUrl(canon.normalized[1])>>]
  /\ UNCHANGED <<store, calls, prev, patcher, probes, handler, watch>>

NextCanon ==
  canon_enforceHttps \/ canon_normalize \/ canon_again \/ canon_firstKeys

\* Both rewrites evaluated on every string of UrlStrings.
SpecCanon == InitCanon /\ [][NextCanon]_vars

\* --------------------------------------------------- the module registry
\* A key of require.cache is a file path; it is kept as its sequence of
\* segments, and key.includes(marker) looks for the marker among them.
SdkMarker == "@saleor/app-sdk"
includes(key, marker) == \E i \in 1..Len(key) : key[i] = marker

ChunkPath  == <<"node_modules", "@saleor/app-sdk", "chunk-SB7ROIUN">>
NextPath   == <<"node_modules", "@saleor/app-sdk", "handlers/next">>
VerifyPath == <<"node_modules", "@saleor/app-sdk", "verify">>
IndexPath  == <<"node_modules", "@saleor/app-sdk", "index">>
JosePath   == <<"node_modules", "jose", "verify">>
ModulePaths == {ChunkPath, NextPath, VerifyPath, IndexPath, JosePath}

\* Faulty variant: only the chunk is looked for.
isSdkModule_chunkOnly(key) ==
  includes(key, SdkMarker) /\ includes(key, "chunk-SB7ROIUN")

\* Faulty variant: the test for the SDK's own marker is left out.
isSdkModule_anyPackage(key) ==
  \/ includes(key, "chunk-SB7ROIUN")
  \/ includes(key, "handlers/next")
  \/ includes(key, "verify")

\* The filter of Object.keys(moduleCache).
isSdkModule(key) ==
  /\ includes(key, SdkMarker)
  /\ \/ includes(key, "chunk-SB7ROIUN")
     \/ includes(key, "handlers/next")
     \/ includes(key, "verify")

\* Function values. The library's own function carries the place it was
\* defined at; the override is a closure over the function it replaced
\* (originalFunction) and over the module path it was installed under.
Original(label) == [kind |-> "original", label |-> label, captured |-> <<>>]
Override(label, originalFunction) ==
  [kind |-> "override", label |-> label, captured |-> <<originalFunction>>]

\* modulePath + '.default'
DefaultLabel(modulePath) == modulePath \o <<".default">>

\* The arguments a verification function is called with.
Args == [jwks : {"jwks"}, signature : {"valid", "forged"}, rawBody : {"body", ""}]

\* What a call of a function does: how its promise settles, which other
\* functions it ran, and the module the bypass warning names.
RECURSIVE Invoke(_, _)

\* Faulty variant: an override put over an earlier override calls that one
\* first.
override_body_chained(f, args) ==
  [outcome |-> "resolved",
   invoked |-> IF f.captured[1].kind = "override" THEN <<f.captured[1].label>> ELSE <<>>,
   warned |-> <<f.label>>]

\* Faulty variant: the override hands the call on to the function it replaced.
override_body_delegating(f, args) == Invoke(f.captured[1], args)

\* The async function installed by patchSignatureFunction: one warning, then
\* Promise.resolve(); originalFunction is never called, the arguments are
\* only tested for presence in the warning's fields.
override_body(f, args) ==
  [outcome |-> "resolved", invoked |-> <<>>, warned |-> <<f.label>>]

\* The library's verifySignatureWithJwks rejects a signature that does not
\* verify.
Invoke(f, args) ==
  IF f.kind = "original"
  THEN [outcome |-> IF args.signature = "valid" THEN "resolved" ELSE "rejected",
        invoked |-> <<f.label>>, warned |-> <<>>]
  ELSE override_body(f, args)

\* A module object of the cache. `exports` tells whether moduleObj.exports is
\* truthy; verifySignatureWithJwks is the binding on exports; `default` tells
\* whether exports.default is missing, is exports itself, or is an object of
\* its own with the binding defaultVerify; `writable` tells whether the
\* bindings accept an assignment (a getter-only or frozen binding throws a
\* TypeError in strict mode).
Module(path, exports, direct, default, defaultVerify, writable) ==
  [path |-> path, exports |-> exports, verifySignatureWithJwks |-> direct,
   default |-> default, defaultVerify |-> defaultVerify, writable |-> writable,
   processSaleorWebhook |-> IF exports THEN <<Original(path \o <<"processSaleorWebhook">>)>>
                            ELSE <<>>]

\* The shapes a freshly loaded module may have.
ModulesAt(path) ==
  LET fn == <<Original(path)>>
      dfn == <<Original(DefaultLabel(path))>>
  IN { Module(path, FALSE, <<>>, "none", <<>>, TRUE),
       Module(path, TRUE, <<>>, "none", <<>>, TRUE),
       Module(path, TRUE, fn, "none", <<>>, TRUE),
       Module(path, TRUE, fn, "none", <<>>, FALSE),
       Module(path, TRUE, fn, "self", <<>>, TRUE),
       Module(path, TRUE, fn, "object", dfn, TRUE),
       Module(path, TRUE, <<>>, "object", dfn, TRUE) }
Modules == UNION {ModulesAt(path) : path \in ModulePaths}

InCache(cache, path) == \E i \in 1..Len(cache) : cache[i].path = path

\* exports.default.verifySignatureWithJwks, read through the indirection.
DefaultBinding(m) ==
  IF m.default = "self" THEN m.verifySignatureWithJwks
  ELSE IF m.default = "object" THEN m.defaultVerify
  ELSE <<>>

\* ------------------------------------------------------ the scanning pass
\* patchSignatureFunction(obj, 'verifySignatureWithJwks', modulePath), where
\* obj is exports or exports.default: reads the binding, assigns the
\* override. The assignment throws when the binding takes none.
patchSignatureFunction(m, target, modulePath) ==
  IF ~m.writable THEN [raised |-> TRUE, module |-> m]
  ELSE IF target = "exports" \/ m.default = "self"
  THEN [raised |-> FALSE,
        module |-> [m EXCEPT !.verifySignatureWithJwks = <<Override(modulePath, @[1])>>]]
  ELSE [raised |-> FALSE,
        module |-> [m EXCEPT !.defaultVerify = <<Override(modulePath, @[1])>>]]

\* The body of sdkModules.forEach for one module: the test on exports, the
\* test and patch of the direct export, then of the default export, each
\* counted in patchedCount.
scanModule(m) ==
  IF ~m.exports THEN [raised |-> FALSE, module |-> m, patchedCount |-> 0]
  ELSE
    LET direct == IF m.verifySignatureWithJwks # <<>>
                  THEN patchSignatureFunction(m, "exports", m.path)
                  ELSE [raised |-> FALSE, module |-> m]
        n1 == IF m.verifySignatureWithJwks # <<>> /\ ~direct.raised THEN 1 ELSE 0
        m1 == direct.module
        viaDefault == IF DefaultBinding(m1) # <<>>
                      THEN patchSignatureFunction(m1, "default", DefaultLabel(m.path))
                      ELSE [raised |-> FALSE, module |-> m1]
        n2 == IF DefaultBinding(m1) # <<>> /\ ~viaDefault.raised THEN 1 ELSE 0
    IN IF direct.raised
       THEN [raised |-> TRUE, module |-> m1, patchedCount |-> 0]
       ELSE [raised |-> viaDefault.raised, module |-> viaDefault.module,
             patchedCount |-> n1 + n2]

\* sdkModules.forEach over the cache in key order, from entry i on; an
\* exception ends the loop where it is raised.
RECURSIVE scanFrom(_, _, _)
scanFrom(cache, i, patchedCount) ==
  IF i > Len(cache)
  THEN [raised |-> FALSE, cache |-> cache, patchedCount |-> patchedCount]
  ELSE IF ~isSdkModule(cache[i].path)
  THEN scanFrom(cache, i + 1, patchedCount)
  ELSE LET r == scanModule(cache[i])
           scanned == [cache EXCEPT ![i] = r.module]
       IN IF r.raised
          THEN [raised |-> TRUE, cache |-> scanned,
                patchedCount |-> patchedCount + r.patchedCount]
          ELSE scanFrom(scanned, i + 1, patchedCount + r.patchedCount)

\* Faulty variant: the catch of approach 1 throws the exception on.
approach1_catch_rethrows(raised) == FALSE

\* The catch around approach 1 takes every exception raised in it.
approach1_catch(raised) == raised

\* Faulty variant: nothing is said when nothing was patched.
closing_warns_silent(patchedCount) == 0

\* The closing log of approach 1: a warning when nothing was patched, an
\* info with the count otherwise.
closing_warns(patchedCount) == IF patchedCount > 0 THEN 0 ELSE 1

\* Bounds of the registry and of the number of installations.
MaxModules == 2
MaxInstalls == 2

\* What the two require calls of approach 2 may add to the cache: each
\* module not yet loaded is either loaded (in any shape) or not found.
Required(hasRequire, cache) ==
  LET optional(path, c) ==
        IF ~hasRequire \/ InCache(c, path) \/ Len(c) >= MaxModules THEN {<<>>}
        ELSE {<<>>} \cup {<<m>> : m \in ModulesAt(path)}
  IN UNION {{a \o b : b \in optional(IndexPath, cache \o a)} :
            a \in optional(NextPath, cache)}

\* patchLoadedModules: approach 1 (the scan, its two closing logs, its
\* catch) and approach 2 (the two require calls, which only log). Without
\* require the first statement of approach 1 already throws.
patchLoadedModules(hasRequire, cache, loaded) ==
  LET scan == IF hasRequire THEN scanFrom(cache, 1, 0)
              ELSE [raised |-> TRUE, cache |-> cache, patchedCount |-> 0]
      caught == approach1_catch(scan.raised)
      thrown == scan.raised /\ ~caught
  IN [cache |-> IF thrown THEN scan.cache ELSE scan.cache \o loaded,
      raised |-> scan.raised,
      thrown |-> thrown,
      patchedCount |-> scan.patchedCount,
      reported |-> IF ~scan.raised /\ scan.patchedCount > 0
                   THEN <<scan.patchedCount>> ELSE <<>>,
      warns |-> IF scan.raised THEN 0 ELSE closing_warns(scan.patchedCount),
      debugs |-> IF caught THEN 1 ELSE 0]

\* ------------------------------------------------------ the installation
\* The delay of the deferred pass, in milliseconds.
PatchDelayMs == 100

\* Faulty variant: no deferred pass is scheduled.
setTimeout_dropped(timers, install, atInstall) == timers

\* setTimeout(callback, 100): timers of equal delay fire in the order they
\* were set.
setTimeout(timers, install, atInstall) ==
  Append(timers, [install |-> install, delay |-> PatchDelayMs, atInstall |-> atInstall])

PathsOf(cache) == {cache[i].path : i \in 1..Len(cache)}

\* What is kept of a pass: the installation it belongs to, the cache it
\* started from and ended with, the paths loaded when its installation began, and what
\* patchLoadedModules and the catch around its call did.
Report(install, kind, atInstall, before, pass) ==
  [install |-> install, kind |-> kind, atInstall |-> atInstall, before |-> before,
   after |-> pass.cache, raised |-> pass.raised, patchedCount |-> pass.patchedCount,
   reported |-> pass.reported, warns |-> pass.warns,
   debugs |-> pass.debugs + (IF kind = "delayed" /\ pass.thrown THEN 1 ELSE 0),
   errors |-> IF kind = "immediate" /\ pass.thrown THEN 1 ELSE 0,
   uncaught |-> FALSE]

NoReport ==
  [install |-> 0, kind |-> "none", atInstall |-> {}, before |-> <<>>,
   after |-> <<>>, raised |-> FALSE, patchedCount |-> 0, reported |-> <<>>, warns |-> 0,
   debugs |-> 0, errors |-> 0, uncaught |-> FALSE]

InitPatcher ==
  /\ store = <<>>
  /\ calls = [c \in Callers |-> NoCall]
  /\ prev = Summary(NoCall)
  /\ canon = NoCanon
  /\ probes = NoProbes
  /\ handler = NoHandler
  /\ watch = NoWatch
  /\ patcher \in {[hasRequire |-> r, cache |-> <<>>, timers |-> <<>>,
                   installs |-> 0, passes |-> <<>>, last |-> NoReport] :
                  r \in BOOLEAN}

\* bypassSignatureVerification(): sets the timer, runs the immediate pass,
\* logs and returns; its catch takes whatever the pass throws.
bypassSignatureVerification ==
  /\ patcher.installs < MaxInstalls
  /\ \E loaded \in Required(patcher.hasRequire, patcher.cache) :
       LET install == patcher.installs + 1
           atInstall == PathsOf(patcher.cache)
           pass == patchLoadedModules(patcher.hasRequire, patcher.cache, loaded)
       IN patcher' = [patcher EXCEPT
            !.installs = install,
            !.timers = setTimeout(@, install, atInstall),
            !.cache = pass.cache,
            !.passes = Append(@, <<[kind |-> "immediate", raised |-> pass.raised]>>),
            !.last = Report(install, "immediate", atInstall, patcher.cache, pass)]
  /\ UNCHANGED <<store, calls, prev, canon, probes, handler, watch>>

\* The timer's callback: the delayed pass inside its own try/catch.
timer_fire ==
  /\ patcher.timers # <<>>
  /\ \E loaded \in Required(patcher.hasRequire, patcher.cache) :
       LET timer == Head(patcher.timers)
           pass == patchLoadedModules(patcher.hasRequire, patcher.cache, loaded)
       IN patcher' = [patcher EXCEPT
            !.timers = Tail(@),
            !.cache = pass.cache,
            !.passes[timer.install] =
               Append(@, [kind |-> "delayed", raised |-> pass.raised]),
            !.last = Report(timer.install, "delayed", timer.atInstall,
                            patcher.cache, pass)]
  /\ UNCHANGED <<store, calls, prev, canon, probes, handler, watch>>

\* Some other code of the process requires a module for the first time.
load_module ==
  /\ patcher.hasRequire
  /\ Len(patcher.cache) < MaxModules
  /\ \E m \in Modules :
       /\ ~InCache(patcher.cache, m.path)
       /\ patcher' = [patcher EXCEPT !.cache = Append(@, m)]
  /\ UNCHANGED <<store, calls, prev, canon, probes, handler, watch>>

NextPatcher == bypassSignatureVerification \/ timer_fire \/ load_module

\* The patcher installed up to MaxInstalls times in a process that loads
\* up to MaxModules modules.
SpecPatcher == InitPatcher /\ [][NextPatcher]_vars

\* ------------------------------------------------------ the claims' terms
\* The canonical (secure-scheme) form of an identity, as spec section 4.1
\* words it: a leading insecure marker becomes the secure marker, the rest
\* stays character for character.
HasInsecureScheme(u) == StartsWith(u, HttpMarker)
HasSecureScheme(u) == StartsWith(u, HttpsMarker)
CanonicalForm(u) ==
  IF HasInsecureScheme(u)
  THEN HttpsMarker \o [i \in 1..(Len(u) - Len(HttpMarker)) |-> u[i + Len(HttpMarker)]]
  ELSE u
InsecureForm(u) ==
  IF HasSecureScheme(u)
  THEN HttpMarker \o [i \in 1..(Len(u) - Len(HttpsMarker)) |-> u[i + Len(HttpsMarker)]]
  ELSE u
IsCanonical(u) == ~HasInsecureScheme(u)

\* A record with its identity in canonical form and its other fields kept.
Canonicalized(r) ==
  [appId |-> r.appId, saleorApiUrl |-> CanonicalForm(r.saleorApiUrl),
   token |-> r.token, jwks |-> r.jwks]

\* The record the backing APL holds under a key (when Holds).
Stored(key) == baseApl_get(store, key)[1]

Returned(c, op) ==
  calls[c].op = op /\ calls[c].pc = "done" /\ calls[c].outcome = "resolved"

\* -------------------------------------------------------------------- C1
\* C1: whenever get returns a record, its saleorApiUrl is in canonical form:
\* it never begins with the insecure marker, and it is the canonical form of
\* the identity the found record carried (so it begins with the secure
\* marker whenever that identity had a scheme), whichever query found it.
C1_ReadReturnsCanonical ==
  \A c \in Callers :
    (Returned(c, "get") /\ calls[c].result # undefined) =>
      /\ IsCanonical(calls[c].result[1].saleorApiUrl)
      /\ calls[c].authData # undefined
      /\ calls[c].result[1].saleorApiUrl = CanonicalForm(calls[c].authData[1].saleorApiUrl)
      /\ (HasInsecureScheme(calls[c].authData[1].saleorApiUrl)
            => HasSecureScheme(calls[c].result[1].saleorApiUrl))

\* A read that found, by its second query, a record carrying an insecure identity.
C1_Witness ==
  \E c \in Callers :
    /\ Returned(c, "get") /\ calls[c].result # undefined
    /\ Len(calls[c].queries) = 2
    /\ HasInsecureScheme(calls[c].authData[1].saleorApiUrl)

\* -------------------------------------------------------------------- C2
\* C2: starting from an empty backing APL, after any adapter calls every
\* stored record has a canonical saleorApiUrl; set hands the backing APL
\* exactly one record, the caller's with its identity in canonical form, and
\* no other operation hands it any.
C2_StoredCanonical ==
  /\ \A i \in 1..Len(store) : IsCanonical(store[i].saleorApiUrl)
  /\ \A c \in Callers :
       IF calls[c].op = "set"
       THEN calls[c].handed = <<Canonicalized(calls[c].rec[1])>>
       ELSE calls[c].handed = <<>>

\* A record supplied with an insecure identity has been written and is held.
C2_Witness ==
  \E c \in Callers :
    /\ Returned(c, "set")
    /\ HasInsecureScheme(calls[c].rec[1].saleorApiUrl)
    /\ \E i \in 1..Len(store) : store[i] = Canonicalized(calls[c].rec[1])

\* -------------------------------------------------------------------- C3
\* C3: (sequential client) when the backing APL holds a record under the
\* canonical form of u, get(u) returns that record with canonical identity
\* after exactly one query, made with the canonical key, also when another
\* record is held under the insecure form of u.
C3_CanonicalHitOneQuery ==
  \A c \in Callers :
    (Returned(c, "get") /\ Holds(store, CanonicalForm(calls[c].url))) =>
      /\ calls[c].result = <<Canonicalized(Stored(CanonicalForm(calls[c].url)))>>
      /\ calls[c].queries = <<CanonicalForm(calls[c].url)>>

\* A read by the insecure identity, with records under both variants.
C3_Witness ==
  \E c \in Callers :
    /\ Returned(c, "get")
    /\ HasInsecureScheme(calls[c].url)
    /\ Holds(store, CanonicalForm(calls[c].url))
    /\ Holds(store, calls[c].url)
    /\ Stored(calls[c].url).appId # Stored(CanonicalForm(calls[c].url)).appId

\* -------------------------------------------------------------------- C4
\* C4: (sequential client) when the canonical key misses and a record is
\* held under the insecure form of u, get(u) returns that record with its
\* identity rewritten to canonical form after exactly two queries: the
\* canonical key, then the insecure key.
C4_InsecureFallbackTwoQueries ==
  \A c \in Callers :
    ( /\ Returned(c, "get")
      /\ ~Holds(store, CanonicalForm(calls[c].url))
      /\ Holds(store, InsecureForm(calls[c].url)) ) =>
      /\ calls[c].result = <<Canonicalized(Stored(InsecureForm(calls[c].url)))>>
      /\ calls[c].queries = <<CanonicalForm(calls[c].url), InsecureForm(calls[c].url)>>

\* A read by the secure identity served from a record under the insecure key.
C4_Witness ==
  \E c \in Callers :
    /\ Returned(c, "get")
    /\ HasSecureScheme(calls[c].url)
    /\ ~Holds(store, calls[c].url)
    /\ Holds(store, InsecureForm(calls[c].url))
    /\ calls[c].result # undefined

\* -------------------------------------------------------------------- C5
\* C5: (sequential client) when none of the three candidate keys holds a
\* record, get(u) resolves with undefined after exactly three queries and
\* logs exactly one warning, carrying u as requested; a get that returns a
\* record logs no warning.
C5_AllMissAbsentWarned ==
  \A c \in Callers :
    Returned(c, "get") =>
      /\ ( ( /\ ~Holds(store, CanonicalForm(calls[c].url))
             /\ ~Holds(store, InsecureForm(calls[c].url))
             /\ ~Holds(store, calls[c].url) ) =>
             /\ calls[c].result = undefined
             /\ calls[c].queries =
                  <<CanonicalForm(calls[c].url), InsecureForm(calls[c].url), calls[c].url>>
             /\ calls[c].warns = <<calls[c].url>> )
      /\ (calls[c].result # undefined => calls[c].warns = <<>>)

\* A read by the insecure identity that found nothing under any candidate.
C5_Witness ==
  \E c \in Callers :
    /\ Returned(c, "get")
    /\ HasInsecureScheme(calls[c].url)
    /\ calls[c].result = undefined
    /\ Len(calls[c].queries) = 3

\* -------------------------------------------------------------------- C6
\* C6: (sequential client) set(r) that resolved, followed directly by
\* get(r.saleorApiUrl), returns r with its identity in canonical form and
\* appId, token and jwks as written.
C6_RoundTrip ==
  ( /\ Returned(1, "get")
    /\ prev.op = "set" /\ prev.outcome = "resolved"
    /\ calls[1].url = prev.rec[1].saleorApiUrl ) =>
    /\ calls[1].result # undefined
    /\ calls[1].result[1].appId = prev.rec[1].appId
    /\ calls[1].result[1].token = prev.rec[1].token
    /\ calls[1].result[1].jwks = prev.rec[1].jwks
    /\ calls[1].result[1].saleorApiUrl = CanonicalForm(prev.rec[1].saleorApiUrl)

\* A record written with an insecure identity was read back, while the
\* backing APL holds another, legacy record under that insecure key.
C6_Witness ==
  /\ Returned(1, "get")
  /\ prev.op = "set" /\ prev.outcome = "resolved"
  /\ calls[1].url = prev.rec[1].saleorApiUrl
  /\ HasInsecureScheme(calls[1].url)
  /\ Holds(store, calls[1].url)
  /\ Stored(calls[1].url).appId # prev.rec[1].appId

\* -------------------------------------------------------------------- C7
\* C7: (sequential client) the outcome of get(u) depends on u only through
\* its logical identity: when a record is held under the secure or under
\* the insecure variant of u, get(u) returns a held record, for u in either
\* scheme: the one under the secure variant when there is one, otherwise
\* the one under the insecure variant (its identity rewritten).
C7_SchemeIndependent ==
  \A c \in Callers :
    Returned(c, "get") =>
      LET secure == CanonicalForm(calls[c].url)
          insecure == InsecureForm(CanonicalForm(calls[c].url))
      IN  (Holds(store, secure) \/ Holds(store, insecure)) =>
            calls[c].result =
              <<Canonicalized(IF Holds(store, secure)
                              THEN Stored(secure) ELSE Stored(insecure))>>

\* Registered under the secure identity only, requested by the insecure one.
C7_Witness ==
  \E c \in Callers :
    /\ Returned(c, "get")
    /\ HasInsecureScheme(calls[c].url)
    /\ Holds(store, CanonicalForm(calls[c].url))
    /\ ~Holds(store, calls[c].url)
    /\ calls[c].result # undefined

\* -------------------------------------------------------------------- C8
\* C8: (sequential client) once delete(u) has returned, both of its
\* baseApl.delete calls having succeeded, the backing APL holds no record
\* under the secure variant of u and none under the insecure variant.
C8_DeleteRemovesBothVariants ==
  \A c \in Callers :
    (Returned(c, "delete") /\ calls[c].sub = <<"fulfilled", "fulfilled">>) =>
      /\ ~Holds(store, CanonicalForm(calls[c].url))
      /\ ~Holds(store, InsecureForm(CanonicalForm(calls[c].url)))

\* -------------------------------------------------------------------- C9
\* The steps by which a delete call goes on without any failure.
DeleteAdvance(c) ==
  /\ \/ \E i \in 1..2 : delete_fulfil(c, i)
     \/ delete_await63(c)
  /\ UNCHANGED <<prev, canon, patcher, probes, handler, watch>>

\* C9: delete(u) issues exactly two baseApl.delete calls, the first with
\* the canonical form of u and the second with u as supplied; whatever the
\* backing APL holds it can always go on to its end, and it ends resolved.
C9_DeleteTwoCalls ==
  \A c \in Callers :
    /\ calls[c].op # "delete" => calls[c].deletes = <<>>
    /\ calls[c].op = "delete" =>
         /\ calls[c].deletes = <<CanonicalForm(calls[c].url), calls[c].url>>
         /\ calls[c].pc = "done" => calls[c].outcome = "resolved"
         /\ calls[c].pc # "done" => ENABLED DeleteAdvance(c)

\* A delete returned although no record existed under either of its two
\* different keys: the get made just before it had missed all candidates.
C9_Witness ==
  /\ Returned(1, "delete")
  /\ calls[1].deletes[1] # calls[1].deletes[2]
  /\ prev.op = "get" /\ prev.outcome = "resolved" /\ ~prev.found
  /\ prev.url = calls[1].url

\* ------------------------------------------------------------------- C10
\* C10: both baseApl.delete calls are in flight from the moment delete
\* waits; delete returns only when both have settled, and then resolved,
\* also when one or both rejected; while one is pending it can still be
\* carried out, whatever the other did.
C10_DeleteSettlesBoth ==
  \A c \in Callers :
    calls[c].op = "delete" =>
      /\ Len(calls[c].sub) = 2
      /\ Len(calls[c].deletes) = 2
      /\ calls[c].pc = "done" =>
           /\ \A i \in 1..2 : calls[c].sub[i] \in {"fulfilled", "rejected"}
           /\ calls[c].outcome = "resolved"
      /\ calls[c].pc # "done" =>
           \A i \in 1..2 :
             calls[c].sub[i] = "pending" =>
               ENABLED (delete_fulfil(c, i) /\ UNCHANGED <<prev, canon, patcher, probes, handler, watch>>)

\* A delete returned after its first sub-request failed and its second deleted.
C10_Witness ==
  \E c \in Callers :
    /\ Returned(c, "delete")
    /\ calls[c].sub = <<"rejected", "fulfilled">>

\* ------------------------------------------------------------------- C11
\* The backing APL failed during the call: a query, write or enumeration
\* threw, or one of the two deletions rejected.
StoreFailed(call) ==
  \/ call.thrown # "none"
  \/ \E i \in 1..Len(call.sub) : call.sub[i] = "rejected"

\* C11 as stated: whenever the backing APL throws during get, set, delete or
\* getAll, the adapter's call ends rejected with that very error.
C11_AnyStoreErrorReachesCaller ==
  \A c \in Callers :
    (calls[c].pc = "done" /\ StoreFailed(calls[c])) =>
      /\ calls[c].outcome = "rejected"
      /\ calls[c].thrown \in StoreErrors
      /\ calls[c].error = calls[c].thrown

\* C11 amended: get, set and getAll end rejected exactly when the backing
\* APL threw, and then with the error it threw, unchanged; delete never
\* ends rejected, a rejected deletion is swallowed and delete resolves.
C11_StoreErrorsPropagateExceptDelete ==
  \A c \in Callers :
    calls[c].pc = "done" =>
      /\ calls[c].op \in {"get", "set", "getAll"} =>
           /\ calls[c].outcome = "rejected" <=> calls[c].thrown \in StoreErrors
           /\ calls[c].error = calls[c].thrown
           /\ calls[c].outcome = "rejected" => calls[c].result = <<>>
      /\ calls[c].op = "delete" =>
           /\ calls[c].outcome = "resolved"
           /\ calls[c].error = "none"

\* A get ended rejected with the error its second query threw, right after
\* a delete that resolved.
C11_Witness ==
  /\ calls[1].op = "get" /\ calls[1].pc = "done"
  /\ Len(calls[1].queries) = 2
  /\ calls[1].outcome = "rejected"
  /\ calls[1].error = "ETIMEDOUT"
  /\ prev.op = "delete" /\ prev.outcome = "resolved"

\* ------------------------------------------------------------------- C12
\* C12: getAll returns one record per record of the backing APL, in the
\* backing APL's order, each with its saleorApiUrl in canonical form and its
\* appId, token and jwks as stored.
C12_GetAllOrderCountCanonical ==
  Returned(1, "getAll") =>
    /\ Len(calls[1].result) = Len(store)
    /\ \A i \in 1..Len(store) :
         /\ calls[1].result[i] = Canonicalized(store[i])
         /\ IsCanonical(calls[1].result[i].saleorApiUrl)

\* getAll returned two records of different installations, the first stored
\* under an insecure key and the second under a key that is not.
C12_Witness ==
  /\ Returned(1, "getAll")
  /\ Len(store) = 2 /\ Len(calls[1].result) = 2
  /\ HasInsecureScheme(store[1].saleorApiUrl)
  /\ ~HasInsecureScheme(store[2].saleorApiUrl)
  /\ store[1].appId # store[2].appId
  /\ calls[1].result[1].saleorApiUrl # store[1].saleorApiUrl

\* ------------------------------------------------------------------- C13
\* The rewrite the claim describes, spelled out on characters: out is the
\* secure marker followed by what followed the insecure marker in u.
IsPrefixRewriteOf(out, u) ==
  IF HasInsecureScheme(u)
  THEN /\ Len(out) = Len(u) + 1
       /\ \A i \in 1..Len(HttpsMarker) : out[i] = HttpsMarker[i]
       /\ \A i \in (Len(HttpMarker) + 1)..Len(u) : out[i + 1] = u[i]
  ELSE out = u

\* C13: enforceHttps and normalizeSaleorApiUrl are prefix rewrites only: a
\* leading insecure marker becomes the secure marker and everything after it
\* is kept; any other string, also one holding the insecure marker further
\* on, comes back as given.
C13_PrefixRewriteOnly ==
  /\ canon.enforced # <<>> => IsPrefixRewriteOf(canon.enforced[1], canon.input[1])
  /\ canon.normalized # <<>> => IsPrefixRewriteOf(canon.normalized[1], canon.input[1])

\* Both rewrites were evaluated on a string without a scheme that holds the
\* insecure marker after its first character, and gave it back as it was.
C13_Witness ==
  /\ canon.enforced # <<>> /\ canon.normalized # <<>>
  /\ ~HasInsecureScheme(canon.input[1])
  /\ ~HasSecureScheme(canon.input[1])
  /\ FirstIndexOf(canon.input[1], HttpMarker) > 1
  /\ canon.enforced[1] = canon.input[1]

\* ------------------------------------------------------------------- C14
\* C14: every installation returns normally and every pass ends inside
\* patchLoadedModules: an exception raised by the scan is taken by the
\* catch of approach 1 and logged once, at debug level; nothing reaches the
\* catch of bypassSignatureVerification (no error log), nothing escapes the
\* timer's callback, and a pass that raised logs neither count nor warning.
C14_InstallNeverThrows ==
  /\ Len(patcher.passes) = patcher.installs
  /\ patcher.last.kind # "none" =>
       /\ ~patcher.last.uncaught
       /\ patcher.last.errors = 0
       /\ patcher.last.raised =>
            /\ patcher.last.debugs = 1
            /\ patcher.last.warns = 0
            /\ patcher.last.reported = <<>>
       /\ ~patcher.last.raised => patcher.last.debugs = 0

\* The delayed pass of an installation raised while assigning to a binding
\* that takes no assignment, after its immediate pass had raised as well.
C14_Witness ==
  /\ patcher.hasRequire
  /\ patcher.last.kind = "delayed"
  /\ patcher.last.raised
  /\ patcher.passes[patcher.last.install][1].raised

\* ------------------------------------------------------------------- C15
\* The path filter as spec section 4.3 and the source comment give it: the
\* path names the SDK and one of the three places verification lives in.
MatchesFilter(path) ==
  LET segments == {path[i] : i \in 1..Len(path)}
  IN /\ "@saleor/app-sdk" \in segments
     /\ segments \cap {"chunk-SB7ROIUN", "handlers/next", "verify"} # {}

\* A module the scan is after: its path passes the filter and its exports
\* hold the verification function, directly or through the default export.
HoldsVerify(m) ==
  /\ MatchesFilter(m.path)
  /\ m.exports
  /\ m.verifySignatureWithJwks # <<>> \/ DefaultBinding(m) # <<>>

\* The function resolves for all arguments and runs no library function.
Bypasses(f) ==
  /\ f.kind = "override"
  /\ \A args \in Args :
       /\ Invoke(f, args).outcome = "resolved"
       /\ Invoke(f, args).invoked = <<>>
       /\ Invoke(f, args) = Invoke(f, CHOOSE other \in Args : TRUE)

\* Every verification function the module held before is another function
\* now, and that one bypasses.
Replaced(before, after) ==
  /\ before.verifySignatureWithJwks # <<>> =>
       /\ after.verifySignatureWithJwks # before.verifySignatureWithJwks
       /\ Bypasses(after.verifySignatureWithJwks[1])
  /\ DefaultBinding(before) # <<>> =>
       /\ DefaultBinding(after) # DefaultBinding(before)
       /\ Bypasses(DefaultBinding(after)[1])

TimersOf(install) ==
  {i \in 1..Len(patcher.timers) : patcher.timers[i].install = install}

\* An installation has run its immediate pass and holds one pending timer,
\* or has run its immediate pass and then its delayed pass and holds none.
TwoPassesInOrder ==
  \A install \in 1..patcher.installs :
    LET passes == patcher.passes[install]
    IN /\ Len(passes) \in {1, 2}
       /\ passes[1].kind = "immediate"
       /\ Len(passes) = 1 => Cardinality(TimersOf(install)) = 1
       /\ Len(passes) = 2 =>
            /\ passes[2].kind = "delayed"
            /\ TimersOf(install) = {}
       /\ \A i \in TimersOf(install) : patcher.timers[i].delay = PatchDelayMs

\* A step leaves the timer queue alone, or an installation sets one timer
\* at its end together with its immediate pass, or the callback of the
\* timer at its head runs as the delayed pass of that timer's installation.
TimerQueueStep ==
  \/ patcher'.timers = patcher.timers /\ patcher'.passes = patcher.passes
  \/ /\ patcher'.installs = patcher.installs + 1
     /\ Len(patcher'.timers) = Len(patcher.timers) + 1
     /\ SubSeq(patcher'.timers, 1, Len(patcher.timers)) = patcher.timers
     /\ patcher'.timers[Len(patcher'.timers)].install = patcher'.installs
     /\ patcher'.last.kind = "immediate" /\ patcher'.last.install = patcher'.installs
  \/ /\ patcher.timers # <<>>
     /\ patcher'.timers = Tail(patcher.timers)
     /\ patcher'.installs = patcher.installs
     /\ patcher'.last.kind = "delayed"
     /\ patcher'.last.install = Head(patcher.timers).install
     /\ Len(patcher'.passes[Head(patcher.timers).install]) = 2

\* C16: every installation runs its immediate pass first and then exactly
\* one delayed pass: the timer it sets stays pending, whatever the immediate
\* pass did, until its callback runs the delayed pass; no step removes a
\* timer otherwise, and no pass of the installation follows the delayed one.
C16_ExactlyTwoPasses ==
  /\ []TwoPassesInOrder
  /\ [][TimerQueueStep]_vars

\* The delayed pass of an installation has run after its immediate pass
\* had raised.
C16_Witness ==
  \E install \in 1..patcher.installs :
    /\ Len(patcher.passes[install]) = 2
    /\ patcher.passes[install][1].raised
    /\ patcher.passes[install][2].kind = "delayed"

\* ------------------------------------------------------------------- C17
\* Every verification function the module holds bypasses.
IsBypassed(m) ==
  /\ m.verifySignatureWithJwks # <<>> => Bypasses(m.verifySignatureWithJwks[1])
  /\ DefaultBinding(m) # <<>> => Bypasses(DefaultBinding(m)[1])

\* The modules a delayed pass started with that were not loaded when its
\* installation began and that hold the verification function.
LateLoaded ==
  {i \in 1..Len(patcher.last.before) :
     /\ patcher.last.before[i].path \notin patcher.last.atInstall
     /\ HoldsVerify(patcher.last.before[i])}

VerifyBindings(cache) ==
  {<<i, cache[i].verifySignatureWithJwks[1]>> :
     i \in {j \in 1..Len(cache) : cache[j].verifySignatureWithJwks # <<>>}}
  \cup
  {<<i, cache[i].defaultVerify[1]>> :
     i \in {j \in 1..Len(cache) : cache[j].defaultVerify # <<>>}}

\* C18: whatever number of passes has run, every replaced function
\* resolves for all arguments and runs neither the library's function nor
\* an earlier override; and a pass over a function that was an override
\* already leaves what a call of it does (outcome, functions run, module
\* named in the warning) as it was.
C18_RepatchNoEffect ==
  /\ \A b \in VerifyBindings(patcher.cache) :
       b[2].kind = "override" => Bypasses(b[2])
  /\ patcher.last.kind # "none" =>
       \A i \in 1..Len(patcher.last.before) :
         LET before == patcher.last.before[i]
             after == patcher.cache[i]
         IN /\ (before.verifySignatureWithJwks # <<>>
                 /\ before.verifySignatureWithJwks[1].kind = "override") =>
                 \A args \in Args :
                   Invoke(after.verifySignatureWithJwks[1], args)
                     = Invoke(before.verifySignatureWithJwks[1], args)
            /\ (before.defaultVerify # <<>>
                 /\ before.defaultVerify[1].kind = "override") =>
                 \A args \in Args :
                   Invoke(after.defaultVerify[1], args)
                     = Invoke(before.defaultVerify[1], args)

\* The fourth pass has gone over a module whose exports are their own
\* default export: its function was an override already and is a new
\* override now, put over the earlier ones.
C18_Witness ==
  /\ patcher.installs = MaxInstalls /\ patcher.timers = <<>>
  /\ \E i \in 1..Len(patcher.last.before) :
       LET before == patcher.last.before[i]
           after == patcher.cache[i]
       IN /\ before.default = "self"
          /\ before.verifySignatureWithJwks[1].kind = "override"
          /\ after.verifySignatureWithJwks # before.verifySignatureWithJwks
          /\ after.verifySignatureWithJwks[1].captured[1].captured[1]
               = before.verifySignatureWithJwks[1]

\* ------------------------------------------------------------------- C19
\* The last pass ran over a registry none of whose modules both passes the
\* path filter and holds the verification function.
NothingToPatch ==
  /\ patcher.last.kind # "none"
  /\ patcher.hasRequire
  /\ \A i \in 1..Len(patcher.last.before) : ~HoldsVerify(patcher.last.before[i])

\* The pass raised nothing, replaced no function and logged one warning.
QuietMiss ==
  /\ ~patcher.last.raised
  /\ patcher.last.errors = 0 /\ patcher.last.debugs = 0
  /\ patcher.last.patchedCount = 0
  /\ patcher.last.reported = <<>>
  /\ patcher.last.warns = 1

\* C19 as stated: such a pass completes without error, replaces no
\* function, logs exactly one warning and leaves the registry as it was.
C19_MissLeavesRegistryUnchanged ==
  NothingToPatch =>
    /\ QuietMiss
    /\ patcher.last.after = patcher.last.before

\* C19 amended: such a pass completes without error, replaces no function,
\* logs exactly one warning and leaves every module of the registry as it
\* was; what it may add to the registry are the SDK entry modules that its
\* own require calls load.
C19_MissLeavesModulesUnchanged ==
  NothingToPatch =>
    /\ QuietMiss
    /\ Len(patcher.last.after) >= Len(patcher.last.before)
    /\ \A i \in 1..Len(patcher.last.before) :
         patcher.last.after[i] = patcher.last.before[i]
    /\ \A i \in (Len(patcher.last.before) + 1)..Len(patcher.last.after) :
         patcher.last.after[i].path \in {NextPath, IndexPath}

\* A pass found the function only in a module outside the SDK and an SDK
\* module only without it, and its require loaded no module.
C19_Witness ==
  /\ NothingToPatch
  /\ patcher.last.after = patcher.last.before
  /\ \E i, j \in 1..Len(patcher.last.before) :
       /\ ~MatchesFilter(patcher.last.before[i].path)
       /\ patcher.last.before[i].verifySignatureWithJwks # <<>>
       /\ MatchesFilter(patcher.last.before[j].path)
       /\ patcher.last.before[j].exports
       /\ patcher.last.before[j].verifySignatureWithJwks = <<>>

\* ------------------------------------------------------------------- C20
\* The bindings whose function the last pass replaced: a binding is the
\* place a function is held at, the exports of a module or a default
\* export object of its own.
ReplacedBindings ==
  {<<i, "exports">> :
     i \in {j \in 1..Len(patcher.last.before) :
              patcher.last.after[j].verifySignatureWithJwks
                # patcher.last.before[j].verifySignatureWithJwks}}
  \cup
  {<<i, "default">> :
     i \in {j \in 1..Len(patcher.last.before) :
              patcher.last.after[j].defaultVerify
                # patcher.last.before[j].defaultVerify}}

\* C20: the count a pass reports, and the count it ends with when it
\* reports none and warns, is the number of bindings it replaced.
C20_CountIsBindingsReplaced ==
  (patcher.last.kind # "none" /\ ~patcher.last.raised) =>
    /\ patcher.last.patchedCount = Cardinality(ReplacedBindings)
    /\ patcher.last.reported # <<>> =>
         patcher.last.reported[1] = Cardinality(ReplacedBindings)

\* ------------------------------------------------------------------- C21
\* The keys that name the same registration as u: u itself, its secure and
\* its insecure form.
SchemeVariants(u) == {u, CanonicalForm(u), InsecureForm(u)}

\* The identity an adapter call is made for.
IdentityOf(call) ==
  IF call.op = "set" THEN call.rec[1].saleorApiUrl ELSE call.url

\* What read(u) returns when nothing else runs, from the records held
\* under the scheme variants of u alone.
ReadAlone(s, u) ==
  LET own == SelectSeq(s, LAMBDA r : r.saleorApiUrl \in SchemeVariants(u))
      first == baseApl_get(own, CanonicalForm(u))
      second == baseApl_get(own, InsecureForm(u))
      third == baseApl_get(own, u)
      found == IF first # undefined THEN first
               ELSE IF second # undefined THEN second ELSE third
  IN IF found = undefined THEN undefined ELSE <<Canonicalized(found[1])>>

\* A step changes what the backing APL holds under a key only as part of a
\* set or delete made for a scheme variant of that key.
OwnKeysStep ==
  \A key \in Identities \cup IdentitiesY :
    baseApl_get(store', key) # baseApl_get(store, key) =>
      \E c \in Callers :
        /\ calls'[c] # calls[c]
        /\ calls[c].op \in {"set", "delete"}
        /\ key \in SchemeVariants(IdentityOf(calls[c]))

\* A get that returned gave what it would have given alone.
ReadsAsAlone ==
  \A c \in Callers :
    Returned(c, "get") => calls[c].result = ReadAlone(store, calls[c].url)

\* C21: calls for different identities do not interfere: set and delete
\* change entries under scheme variants of their own identity only, and a
\* get for another identity returns what it would return had they not run.
C21_DifferentIdentitiesDoNotInterfere ==
  /\ []ReadsAsAlone
  /\ [][OwnKeysStep]_vars

\* A get for the second installation found its record through the HTTP
\* fallback while a delete for the first was half done, its second deletion
\* carried out and its first pending.
C21_Witness ==
  /\ Returned(2, "get")
  /\ Len(calls[2].queries) = 2 /\ calls[2].result # undefined
  /\ calls[1].op = "delete" /\ calls[1].pc = "delete63"
  /\ calls[1].sub = <<"pending", "fulfilled">>
  /\ Len(store) = 1

\* ------------------------------------------------------ the webhook handlers
\* One request on its way through one of the three handlers.  saleorApp.apl
\* is the adapter over the backing APL (saleor-app.ts, `new
\* HttpsEnforcingAPL(baseApl)`), so the handler's apl.get is caller 1's get.
Handlers ==
  {"invoiceRequestedHandler", "invoiceDirectHandler", "invoiceRequestedNoVerify"}

\* req.headers[SALEOR_API_URL_HEADER]: undefined when the request carries no
\* such header, else its value, which may be the empty string.
Headers == {undefined} \cup {<<u>> : u \in Identities \cup {<<>>}}

\* The request body: none at all, text that is no JSON, {}, the old format
\* { event: { order } } and the new format { order }.
Bodies == {"none", "notJson", "empty", "event.order", "order"}

\* Where the address comes from: a channel override of the configuration,
\* the shop info, or neither.
Addresses == {"override", "shop", "none"}

NewRequest(name, method, header, event, body, address) ==
  [name |-> name, method |-> method, header |-> header, event |-> event,
   body |-> body, address |-> address,
   pc |-> "start", saleorApiUrl |-> <<>>, authData |-> undefined,
   did |-> <<>>, sent |-> 0, status |-> 0, json |-> "none",
   message |-> "none"]

\* invoiceRequestedHandler and invoiceDirectHandler read req.body, parsed by
\* the framework; invoiceRequestedNoVerify turns the body parser off and
\* reads the raw body itself.
Requests ==
  {NewRequest(name, method, header, event, body, address) :
     name \in Handlers, method \in {"POST", "GET"}, header \in Headers,
     event \in {"invoice_requested", "order_created"}, body \in Bodies,
     address \in Addresses}

\* return res.status(status).json({ error | message | success })
Response(h, status, json) ==
  [h EXCEPT !.pc = "done", !.sent = @ + 1, !.status = status, !.json = json]

\* The catch around each handler's body: 500 with the error's message.
Caught(h, message) ==
  [h EXCEPT !.pc = "done", !.sent = @ + 1, !.status = 500,
            !.json = "Internal server error", !.message = message]

\* The handler calls saleorApp.apl.get(saleorApiUrl) and awaits it.
AwaitAplGet(h, saleorApiUrl) ==
  [h EXCEPT !.pc = "apl.get", !.saleorApiUrl = saleorApiUrl,
            !.did = Append(@, "apl.get")]

\* part_001 lines 37-82: from the method check to the call of apl.get.
\* normalizeSaleorApiUrl calls startsWith on its argument: on undefined that
\* raises a TypeError, which the handler's catch answers.
invoiceRequestedHandler(h) ==
  IF h.method # "POST" THEN Response(h, 405, "Method not allowed")
  ELSE IF h.header = undefined THEN Caught(h, "TypeError")
  ELSE IF normalizeSaleorApiUrl(h.header[1]) = <<>>
    THEN Response(h, 400, "Missing Saleor API URL")
  ELSE IF h.body \in {"none", "notJson"} THEN Response(h, 400, "Invalid payload")
  ELSE IF h.body = "empty"
    THEN Response(h, 400, "Invalid payload - missing order")
  ELSE AwaitAplGet(h, normalizeSaleorApiUrl(h.header[1]))

\* invoice-direct.ts lines 38-68: only the old payload format holds an order.
invoiceDirectHandler(h) ==
  IF h.method # "POST" THEN Response(h, 405, "Method not allowed")
  ELSE IF h.header = undefined THEN Caught(h, "TypeError")
  ELSE IF normalizeSaleorApiUrl(h.header[1]) = <<>>
    THEN Response(h, 400, "Missing Saleor API URL")
  ELSE IF h.body # "event.order"
    THEN Response(h, 400, "Invalid payload - missing order")
  ELSE AwaitAplGet(h, normalizeSaleorApiUrl(h.header[1]))

\* invoice-requested-no-verify.ts lines 39-63: up to the await of getRawBody.
invoiceRequestedNoVerify(h) ==
  IF h.method # "POST" THEN Response(h, 405, "Method not allowed")
  ELSE IF h.header = undefined THEN Caught(h, "TypeError")
  ELSE IF h.event # "invoice_requested" THEN Response(h, 400, "Wrong event type")
  ELSE [h EXCEPT !.pc = "getRawBody",
                 !.saleorApiUrl = normalizeSaleorApiUrl(h.header[1])]

\* invoice-requested-no-verify.ts lines 63-92: the raw body is parsed and
\* looked into, then apl.get is called.
noVerify_payload(h) ==
  IF h.body \in {"none", "notJson"} THEN Response(h, 400, "Invalid JSON payload")
  ELSE IF h.body = "empty" THEN Response(h, 400, "Missing order data")
  ELSE AwaitAplGet(h, h.saleorApiUrl)

InitHandler ==
  /\ store \in LegacyStores
  /\ calls = [c \in Callers |-> NoCall]
  /\ prev = Summary(NoCall)
  /\ canon = NoCanon
  /\ patcher = NoPatcher
  /\ probes = NoProbes
  /\ handler \in Requests
  /\ watch = NoWatch

\* The handler moves on; when it has just called apl.get, the adapter's get
\* has run up to its own first await.
HandlerMoves(h) ==
  /\ handler' = h
  /\ IF h.pc = "apl.get" /\ handler.pc # "apl.get"
     THEN get_begin(1, h.saleorApiUrl)
     ELSE UNCHANGED <<store, calls>>
  /\ UNCHANGED <<prev, canon, patcher, probes, watch>>

\* The request arrives: the handler runs to its first await or its return.
handler_start ==
  /\ handler.pc = "start"
  /\ HandlerMoves(
       IF handler.name = "invoiceRequestedHandler"
         THEN invoiceRequestedHandler(handler)
       ELSE IF handler.name = "invoiceDirectHandler"
         THEN invoiceDirectHandler(handler)
       ELSE invoiceRequestedNoVerify(handler))

handler_rawBody ==
  /\ handler.pc = "getRawBody"
  /\ HandlerMoves(noVerify_payload(handler))

\* Faulty variant: whatever apl.get returned is taken for a registration.
registered_always(authData) == TRUE

\* if (!authData) { ... return res.status(401) ... }
registered(authData) == authData # undefined

\* apl.get has settled: its rejection reaches the catch, absence is answered
\* 401, a record lets the handler go on to resolveTempPdfFileLocation.
handler_authData ==
  /\ handler.pc = "apl.get"
  /\ calls[1].pc = "done"
  /\ HandlerMoves(
       IF calls[1].outcome = "rejected" THEN Caught(handler, calls[1].error)
       ELSE IF ~registered(calls[1].result)
         THEN [Response(handler, 401, "App not registered")
                 EXCEPT !.did = Append(@, "authData")]
       ELSE [handler EXCEPT !.pc = "resolveTempPdfFileLocation",
                            !.authData = calls[1].result,
                            !.did = Append(@, "authData")])

\* The PDF location is resolved; getConfiguration is called.
handler_tempPdf ==
  /\ handler.pc = "resolveTempPdfFileLocation"
  /\ HandlerMoves([handler EXCEPT !.pc = "getConfiguration"])

\* The invoice generator is called.
Generate(h) == [h EXCEPT !.pc = "generate", !.did = Append(@, "generate")]

\* The configuration is there: a channel override is the address, else the
\* shop info is fetched.
handler_configuration ==
  /\ handler.pc = "getConfiguration"
  /\ HandlerMoves(IF handler.address = "override" THEN Generate(handler)
                  ELSE [handler EXCEPT !.pc = "fetchShopInfo"])

\* The shop info is there: without an address the handler answers 200
\* 'App not configured'.
handler_shopInfo ==
  /\ handler.pc = "fetchShopInfo"
  /\ HandlerMoves(IF handler.address = "none"
                  THEN Response(handler, 200, "App not configured")
                  ELSE Generate(handler))

\* The PDF is generated; the upload is called.
handler_generated ==
  /\ handler.pc = "generate"
  /\ HandlerMoves([handler EXCEPT !.pc = "upload",
                                  !.did = @ \o <<"generated", "upload">>])

\* The file is uploaded; the notifier is called.
handler_uploaded ==
  /\ handler.pc = "upload"
  /\ HandlerMoves([handler EXCEPT !.pc = "notifyInvoiceCreated",
                                  !.did = @ \o <<"uploaded", "notify">>])

\* Saleor is notified; the handler answers 200 with success.
handler_notified ==
  /\ handler.pc = "notifyInvoiceCreated"
  /\ HandlerMoves(Response([handler EXCEPT !.did = Append(@, "notified")],
                            200, "success"))

\* Faulty variant: an awaited call that rejects is passed over, the handler
\* goes on with the step after it.
handler_throw_passedOver ==
  /\ handler.pc \in {"getRawBody", "resolveTempPdfFileLocation",
                     "getConfiguration", "fetchShopInfo", "generate",
                     "upload", "notifyInvoiceCreated"}
  /\ HandlerMoves(
       IF handler.pc = "generate"
         THEN [handler EXCEPT !.pc = "upload", !.did = Append(@, "upload"),
                              !.message = "generate"]
       ELSE IF handler.pc = "upload"
         THEN [handler EXCEPT !.pc = "notifyInvoiceCreated",
                              !.did = Append(@, "notify"),
                              !.message = "upload"]
       ELSE Caught(handler, handler.pc))

\* One of the handler's own awaited calls rejects: the catch answers 500.
handler_throw ==
  /\ handler.pc \in {"getRawBody", "resolveTempPdfFileLocation",
                     "getConfiguration", "fetchShopInfo", "generate",
                     "upload", "notifyInvoiceCreated"}
  /\ HandlerMoves(Caught(handler, handler.pc))

NextHandler ==
  \/ handler_start
  \/ handler_rawBody
  \/ get_await33(1) /\ UNCHANGED <<prev, canon, patcher, probes, handler, watch>>
  \/ get_await36(1) /\ UNCHANGED <<prev, canon, patcher, probes, handler, watch>>
  \/ get_await41(1) /\ UNCHANGED <<prev, canon, patcher, probes, handler, watch>>
  \/ \E e \in StoreErrors :
       get_throw(1, e) /\ UNCHANGED <<prev, canon, patcher, probes, handler, watch>>
  \/ handler_authData
  \/ handler_tempPdf
  \/ handler_configuration
  \/ handler_shopInfo
  \/ handler_generated
  \/ handler_uploaded
  \/ handler_notified
  \/ handler_throw

SpecHandler == InitHandler /\ [][NextHandler]_vars

\* ------------------------------------------------------------------- C22
\* The steps that make, store and announce an invoice.
InvoiceSteps == {"generate", "upload", "notify"}

\* The handler's apl.get has returned, and returned no record.
ReadReturnedAbsent ==
  /\ handler.pc # "apl.get"
  /\ calls[1].pc = "done" /\ calls[1].outcome = "resolved"
  /\ calls[1].result = undefined

\* C22: in each handler the read of the credential store has returned before
\* generation, upload or notification starts, and a read that returns absent
\* is answered 401 with none of those steps performed.
C22_ReadBeforeInvoiceSteps ==
  /\ \A i \in DOMAIN handler.did :
       handler.did[i] \in InvoiceSteps =>
         \E j \in 1..(i - 1) : handler.did[j] = "authData"
  /\ ReadReturnedAbsent =>
       /\ handler.status = 401
       /\ \A i \in DOMAIN handler.did : handler.did[i] \notin InvoiceSteps

\* invoiceRequestedNoVerify answered 401 after the adapter had made its three
\* queries against a backing APL that holds records.
C22_Witness ==
  /\ handler.name = "invoiceRequestedNoVerify"
  /\ handler.status = 401 /\ handler.json = "App not registered"
  /\ Len(calls[1].queries) = 3
  /\ Len(store) > 0

\* ------------------------------------------------------------------- C30
\* C30: a POST request without the Saleor API URL header is answered 400
\* 'Missing Saleor API URL' by invoiceRequestedHandler and by
\* invoiceDirectHandler, and the credential store is not queried.
C30_MissingHeaderAnswered400 ==
  (/\ handler.name \in {"invoiceRequestedHandler", "invoiceDirectHandler"}
   /\ handler.method = "POST"
   /\ handler.header = undefined
   /\ handler.pc = "done")
  => /\ handler.status = 400
     /\ handler.json = "Missing Saleor API URL"
     /\ calls[1].queries = <<>>

\* ------------------------------------------------------------------- C23
\* A get whose first two queries missed and whose third, made with the URL
\* as given, was answered with a record.
ThirdQueryHit(c) ==
  /\ Returned(c, "get")
  /\ Len(calls[c].queries) = 3
  /\ calls[c].queries[3] = calls[c].url
  /\ calls[c].authData # undefined

\* The step in which the third query of a get is answered, the backing APL
\* holding a record under its key: the get returns that record in canonical
\* form, having made three queries and logged no warning.
ThirdAnswerStep ==
  \A c \in Callers :
    (/\ calls[c].pc = "get41"
     /\ calls'[c].pc = "done" /\ calls'[c].thrown = "none"
     /\ Holds(store, calls[c].url))
    => /\ calls'[c].outcome = "resolved"
       /\ calls'[c].result = <<Canonicalized(Stored(calls[c].url))>>
       /\ calls'[c].queries =
            <<CanonicalForm(calls[c].url), InsecureForm(calls[c].url),
              calls[c].url>>
       /\ calls'[c].warns = <<>>

\* C23: when the first two queries miss and the third returns a record, get
\* returns that record in canonical form after exactly three queries and
\* without a warning.
C23_ThirdQueryRecordReturned == [][ThirdAnswerStep]_vars

\* A get returned the record its third query found, which a concurrent set
\* had stored after the first two queries missed.
C23_Witness ==
  /\ ThirdQueryHit(1)
  /\ calls[1].result = <<Stored(calls[1].url)>>
  /\ Returned(2, "set")

\* --------------------------------------------------------------- the probes
\* What the backing APL has for a probe: no such method, or a method and the
\* result it answers with.
ReadyProbes == {undefined, <<[ready |-> TRUE]>>, <<[ready |-> FALSE]>>}
ConfiguredProbes ==
  {undefined, <<[configured |-> TRUE]>>, <<[configured |-> FALSE]>>}

\* Lines 75-79: if (this.baseApl.isReady) return this.baseApl.isReady();
\* return { ready: true }
isReady_begin(c) ==
  /\ Free(c)
  /\ calls' = [calls EXCEPT ![c] =
       IF probes.isReady # undefined
       THEN [NoCall EXCEPT !.op = "isReady", !.pc = "isReady76"]
       ELSE [NoCall EXCEPT !.op = "isReady", !.pc = "done",
                           !.outcome = "resolved",
                           !.result = <<[ready |-> TRUE]>>]]
  /\ UNCHANGED store

\* The backing APL's isReady answers.
isReady_await76(c) ==
  /\ calls[c].pc = "isReady76"
  /\ calls' = [calls EXCEPT ![c] =
       [@ EXCEPT !.pc = "done", !.outcome = "resolved",
                 !.result = probes.isReady]]
  /\ UNCHANGED store

\* Faulty variant: isConfigured looks for, and calls, the backing isReady.
isConfigured_begin_asksIsReady(c) ==
  /\ Free(c)
  /\ calls' = [calls EXCEPT ![c] =
       IF probes.isReady # undefined
       THEN [NoCall EXCEPT !.op = "isConfigured", !.pc = "done",
                           !.outcome = "resolved", !.result = probes.isReady]
       ELSE [NoCall EXCEPT !.op = "isConfigured", !.pc = "done",
                           !.outcome = "resolved",
                           !.result = <<[configured |-> TRUE]>>]]
  /\ UNCHANGED store

\* Lines 83-87: if (this.baseApl.isConfigured) return
\* this.baseApl.isConfigured(); return { configured: true }
isConfigured_begin(c) ==
  /\ Free(c)
  /\ calls' = [calls EXCEPT ![c] =
       IF probes.isConfigured # undefined
       THEN [NoCall EXCEPT !.op = "isConfigured", !.pc = "isConfigured84"]
       ELSE [NoCall EXCEPT !.op = "isConfigured", !.pc = "done",
                           !.outcome = "resolved",
                           !.result = <<[configured |-> TRUE]>>]]
  /\ UNCHANGED store

\* The backing APL's isConfigured answers.
isConfigured_await84(c) ==
  /\ calls[c].pc = "isConfigured84"
  /\ calls' = [calls EXCEPT ![c] =
       [@ EXCEPT !.pc = "done", !.outcome = "resolved",
                 !.result = probes.isConfigured]]
  /\ UNCHANGED store

\* The backing APL's probe rejects: the adapter's promise rejects with it.
probe_throw(c, e) ==
  /\ calls[c].pc \in {"isReady76", "isConfigured84"}
  /\ calls' = [calls EXCEPT ![c] = Rejected(@, e)]
  /\ UNCHANGED store

InitReads ==
  /\ store \in LegacyStores
  /\ calls = [c \in Callers |-> NoCall]
  /\ prev = Summary(NoCall)
  /\ canon = NoCanon
  /\ patcher = NoPatcher
  /\ probes \in [isReady : ReadyProbes, isConfigured : ConfiguredProbes]
  /\ handler = NoHandler
  /\ watch = NoWatch

\* One client that reads, lists and probes, each call awaited.
NextReads ==
  \/ \E u \in Identities :
       get_begin(1, u) /\ UNCHANGED <<prev, canon, patcher, probes, handler, watch>>
  \/ get_await33(1) /\ UNCHANGED <<prev, canon, patcher, probes, handler, watch>>
  \/ get_await36(1) /\ UNCHANGED <<prev, canon, patcher, probes, handler, watch>>
  \/ get_await41(1) /\ UNCHANGED <<prev, canon, patcher, probes, handler, watch>>
  \/ \E e \in StoreErrors :
       get_throw(1, e) /\ UNCHANGED <<prev, canon, patcher, probes, handler, watch>>
  \/ getAll_begin(1) /\ UNCHANGED <<prev, canon, patcher, probes, handler, watch>>
  \/ getAll_await70(1) /\ UNCHANGED <<prev, canon, patcher, probes, handler, watch>>
  \/ \E e \in StoreErrors :
       getAll_throw(1, e) /\ UNCHANGED <<prev, canon, patcher, probes, handler, watch>>
  \/ isReady_begin(1) /\ UNCHANGED <<prev, canon, patcher, probes, handler, watch>>
  \/ isReady_await76(1) /\ UNCHANGED <<prev, canon, patcher, probes, handler, watch>>
  \/ isConfigured_begin(1) /\ UNCHANGED <<prev, canon, patcher, probes, handler, watch>>
  \/ isConfigured_await84(1) /\ UNCHANGED <<prev, canon, patcher, probes, handler, watch>>
  \/ \E e \in StoreErrors :
       probe_throw(1, e) /\ UNCHANGED <<prev, canon, patcher, probes, handler, watch>>

SpecReads == InitReads /\ [][NextReads]_vars

\* ------------------------------------------------------------------- C24
\* C24: isReady and isConfigured each return what the backing APL's probe of
\* the same name answers when the backing APL has one, and { ready: true },
\* { configured: true } when it has none; neither depends on the other.
C24_ProbesDelegateOrDefault ==
  \A c \in Callers :
    /\ Returned(c, "isReady") =>
         calls[c].result = IF probes.isReady # undefined
                           THEN probes.isReady ELSE <<[ready |-> TRUE]>>
    /\ Returned(c, "isConfigured") =>
         calls[c].result = IF probes.isConfigured # undefined
                           THEN probes.isConfigured
                           ELSE <<[configured |-> TRUE]>>

\* isConfigured returned the backing APL's { configured: false } although the
\* backing APL has no isReady.
C24_Witness ==
  /\ Returned(1, "isConfigured")
  /\ probes.isReady = undefined
  /\ probes.isConfigured = <<[configured |-> FALSE]>>
  /\ calls[1].result = <<[configured |-> FALSE]>>

\* ------------------------------------------------------------------- C29
\* The adapter's operations that only look: read, enumerate-all, the probes.
ReadOps == {"get", "getAll", "isReady", "isConfigured"}

\* A step of such a call hands the backing APL nothing to set or delete and
\* leaves what it holds as it is.
NoWriteStep ==
  \A c \in Callers :
    (calls'[c] # calls[c] /\ calls'[c].op \in ReadOps) =>
      /\ store' = store
      /\ calls'[c].handed = <<>>
      /\ calls'[c].deletes = <<>>

\* A get that returned the record of its second query, the HTTP fallback.
FoundByFallback(c) ==
  /\ Returned(c, "get")
  /\ Len(calls[c].queries) = 2
  /\ calls[c].result # undefined

\* The record a fallback found is still held, under the insecure key.
FallbackRecordStays ==
  \A c \in Callers :
    FoundByFallback(c) =>
      /\ HasInsecureScheme(calls[c].queries[2])
      /\ baseApl_get(store, calls[c].queries[2]) = calls[c].authData
      /\ ~Holds(store, calls[c].queries[1])

\* C29: get, getAll, isReady and isConfigured never set or delete an entry
\* of the backing APL; a record that get found through the HTTP fallback
\* stays stored under its insecure key.
C29_ReadsNeverWrite ==
  /\ []FallbackRecordStays
  /\ [][NoWriteStep]_vars

\* A get of https://x returned, in canonical form, the legacy record held
\* under http://x, and the backing APL still holds it there as it was.
C29_Witness ==
  /\ FoundByFallback(1)
  /\ calls[1].url = HttpsMarker \o HostX
  /\ Holds(store, HttpMarker \o HostX)
  /\ Stored(HttpMarker \o HostX).saleorApiUrl = HttpMarker \o HostX
  /\ calls[1].result[1].saleorApiUrl = HttpsMarker \o HostX

\* ------------------------------------------------------------------- C25
\* The step in which a query of a get is answered with an error: the get is
\* over, rejected with that error, with the queries and warnings it had.
QueryErrorStep ==
  \A c \in Callers :
    (calls[c].op = "get" /\ calls[c].thrown = "none"
       /\ calls'[c].op = "get" /\ calls'[c].thrown # "none")
    => calls'[c] = [calls[c] EXCEPT !.pc = "done", !.outcome = "rejected",
                                    !.thrown = calls'[c].thrown,
                                    !.error = calls'[c].thrown]

\* A get one of whose queries raised has ended, failed with the error raised,
\* returned nothing and warned of nothing.
QueryErrorEndsGet ==
  \A c \in Callers :
    (calls[c].op = "get" /\ calls[c].thrown # "none") =>
      /\ calls[c].pc = "done" /\ calls[c].outcome = "rejected"
      /\ calls[c].error = calls[c].thrown
      /\ calls[c].result = undefined
      /\ calls[c].warns = <<>>

\* C25: when a query of the backing APL raises inside get, get fails with
\* that error; it queries none of the remaining keys and logs no warning.
C25_QueryErrorFailsGet ==
  /\ []QueryErrorEndsGet
  /\ [][QueryErrorStep]_vars

\* The second query of a get raised: the get made two queries and failed
\* with the error.
C25_Witness ==
  /\ calls[1].op = "get" /\ calls[1].pc = "done"
  /\ calls[1].outcome = "rejected" /\ calls[1].error = "ETIMEDOUT"
  /\ Len(calls[1].queries) = 2
  /\ Len(store) > 0

\* ----------------------------------------------------- concurrent writers
\* Two clients that set and delete, over a backing APL that may hold legacy
\* records.
NextWriters == \E c \in Callers : WriterStep(c, Identities, AuthDatas)

SpecWriters == Init /\ [][NextWriters]_vars

\* ------------------------------------------------------------------- C26
\* Both callers have written, for identities that differ in scheme only.
WrittenInBothSchemes ==
  /\ Returned(1, "set") /\ Returned(2, "set")
  /\ calls[1].rec[1].saleorApiUrl # calls[2].rec[1].saleorApiUrl
  /\ CanonicalForm(calls[1].rec[1].saleorApiUrl)
       = CanonicalForm(calls[2].rec[1].saleorApiUrl)

\* The records the backing APL holds under a scheme variant of u.
HeldFor(u) == SelectSeq(store, LAMBDA r : r.saleorApiUrl \in SchemeVariants(u))

\* C26: two concurrent sets whose identities differ in scheme only leave
\* exactly one record for the identity: it is under the canonical key, none
\* is under the insecure key, and it is the canonical form of one of the two
\* records written, whole.
C26_ConcurrentWritesOneRecord ==
  WrittenInBothSchemes =>
    LET u == calls[1].rec[1].saleorApiUrl IN
    /\ Len(HeldFor(u)) = 1
    /\ HeldFor(u)[1].saleorApiUrl = CanonicalForm(u)
    /\ ~Holds(store, InsecureForm(u))
    /\ HeldFor(u)[1] \in {Canonicalized(calls[1].rec[1]),
                          Canonicalized(calls[2].rec[1])}

\* After the two sets the canonical key holds the canonical form of one of
\* the two records written, whole.
CanonicalKeyHoldsOneWritten ==
  WrittenInBothSchemes =>
    LET u == calls[1].rec[1].saleorApiUrl IN
    /\ Holds(store, CanonicalForm(u))
    /\ Stored(CanonicalForm(u)) \in {Canonicalized(calls[1].rec[1]),
                                     Canonicalized(calls[2].rec[1])}

\* A step of a set leaves the entry under every insecure key as it was.
SetLeavesInsecureKeys ==
  \A c \in Callers :
    (calls[c].op = "set" /\ calls'[c] # calls[c]) =>
      \A key \in Identities :
        HasInsecureScheme(key) =>
          baseApl_get(store', key) = baseApl_get(store, key)

\* C26, amended: the two sets leave under the canonical key the canonical
\* form of one of the two records written, and neither adds, changes or
\* removes an entry under the insecure key.
C26_ConcurrentWritesOneCanonicalRecord ==
  /\ []CanonicalKeyHoldsOneWritten
  /\ [][SetLeavesInsecureKeys]_vars

\* Both sets are done over a backing APL that held a legacy record under
\* http://x: it holds that record still, next to the canonical form of the
\* http:// record written.
C26_Witness ==
  /\ WrittenInBothSchemes
  /\ HasInsecureScheme(calls[1].rec[1].saleorApiUrl)
  /\ calls[1].rec[1].appId # calls[2].rec[1].appId
  /\ Len(store) = 2
  /\ Holds(store, HttpMarker \o HostX)
  /\ Stored(HttpsMarker \o HostX) = Canonicalized(calls[1].rec[1])

\* ------------------------------------------------- a read among writers
\* What the backing APL has held at every moment since the get under way was
\* called: a record under the secure variant of its URL, a record under the
\* insecure variant, one under either.
NotWatching == [secure |-> FALSE, insecure |-> FALSE, either |-> FALSE]

HeldNow(s, u) ==
  [secure |-> Holds(s, CanonicalForm(u)),
   insecure |-> Holds(s, InsecureForm(u)),
   either |-> Holds(s, CanonicalForm(u)) \/ Holds(s, InsecureForm(u))]

StillHeld(w, s, u) ==
  [secure |-> w.secure /\ HeldNow(s, u).secure,
   insecure |-> w.insecure /\ HeldNow(s, u).insecure,
   either |-> w.either /\ HeldNow(s, u).either]

GetUnderWay(call) == call.pc \in {"get33", "get36", "get41"}

\* The watch follows caller 1's get from its call to its return.
Watching ==
  /\ watch' = IF GetUnderWay(calls[1])
                THEN StillHeld(watch, store', calls[1].url)
              ELSE IF GetUnderWay(calls'[1])
                THEN HeldNow(store', calls'[1].url)
              ELSE watch
  /\ UNCHANGED <<prev, canon, patcher, probes, handler>>

InitWatch ==
  /\ store \in LegacyStores
  /\ calls = [c \in Callers |-> NoCall]
  /\ prev = Summary(NoCall)
  /\ canon = NoCanon
  /\ patcher = NoPatcher
  /\ probes = NoProbes
  /\ handler = NoHandler
  /\ watch = NotWatching

\* Caller 1 reads while caller 2 sets and deletes.
NextWatch ==
  \/ \E u \in Identities : get_begin(1, u) /\ Watching
  \/ get_await33(1) /\ Watching
  \/ get_await36(1) /\ Watching
  \/ get_await41(1) /\ Watching
  \/ \E a \in AuthDatas : set_begin(2, a) /\ Watching
  \/ set_await56(2) /\ Watching
  \/ \E u \in Identities : delete_begin(2, u) /\ Watching
  \/ \E i \in 1..2 : delete_fulfil(2, i) /\ Watching
  \/ \E i \in 1..2 : delete_reject(2, i) /\ Watching
  \/ delete_await63(2) /\ Watching

SpecWatch == InitWatch /\ [][NextWatch]_vars

\* ------------------------------------------------------------------- C27
\* C27: a get running among sets and deletes for the same logical identity
\* never returns absent when the backing APL held, at every moment between
\* its call and its return, a record under the secure or the insecure
\* variant of its URL.
C27_ReadFindsRecordHeldThroughout ==
  (Returned(1, "get") /\ watch.either) => calls[1].result # undefined

\* ------------------------------------------------------------------- C28
\* C28: the key of a get's third query is the key of its first or of its
\* second query, whatever the scheme of the URL; so over a backing APL that
\* does not change during the call a third query finds nothing.
C28_ThirdKeyRepeatsEarlierKey ==
  \A c \in Callers :
    (calls[c].op = "get" /\ Len(calls[c].queries) = 3) =>
      /\ calls[c].queries[3] \in {calls[c].queries[1], calls[c].queries[2]}
      /\ Returned(c, "get") =>
           calls[c].authData = undefined /\ calls[c].result = undefined

\* A get of https://x made its three queries, the third with the key of the
\* first, over a backing APL that holds a record under another form of the
\* URL, and returned nothing.
C28_Witness ==
  /\ Returned(1, "get")
  /\ calls[1].url = HttpsMarker \o HostX
  /\ Len(calls[1].queries) = 3
  /\ calls[1].queries[3] = calls[1].queries[1]
  /\ calls[1].queries[3] # calls[1].queries[2]
  /\ Holds(store, HostX)
  /\ calls[1].result = undefined

\* ------------------------------------------------------------------- C31
\* The calls and returns of the three invoice steps, in the order of the
\* handler's body.
InvoiceOrder ==
  <<"generate", "generated", "upload", "uploaded", "notify", "notified">>

IsInvoiceEvent(e) == \E i \in DOMAIN InvoiceOrder : InvoiceOrder[i] = e

\* The invoice steps the handler has called and seen return, in order.
InvoiceEvents == SelectSeq(handler.did, IsInvoiceEvent)

\* One of the three invoice steps raised.
InvoiceStepRaised ==
  handler.message \in {"generate", "upload", "notifyInvoiceCreated"}

\* C31: in each handler generation, upload, notification and the success
\* response run in that order, each step called only after the one before it
\* returned and 200 success sent only after the notification returned; when
\* a step raises no later step runs and the one response sent is 500.
C31_InvoiceStepsInOrder ==
  /\ InvoiceEvents = SubSeq(InvoiceOrder, 1, Len(InvoiceEvents))
  /\ (handler.status = 200 /\ handler.json = "success") =>
       InvoiceEvents = InvoiceOrder
  /\ InvoiceStepRaised =>
       /\ handler.pc = "done"
       /\ handler.status = 500 /\ handler.json = "Internal server error"
       /\ Len(InvoiceEvents) \in {1, 3, 5}
  /\ handler.sent = IF handler.pc = "done" THEN 1 ELSE 0

\* invoiceDirectHandler generated the PDF, the upload raised: the notifier
\* was not called and the one response is 500.
C31_Witness ==
  /\ handler.name = "invoiceDirectHandler"
  /\ handler.message = "upload"
  /\ InvoiceEvents = <<"generate", "generated", "upload">>
  /\ handler.status = 500 /\ handler.sent = 1

\* ------------------------------------------------------------------- C32
\* Module `after` is module `before` but for the functions held at the
\* binding verifySignatureWithJwks of its exports and of its default export.
SameButVerifyBindings(before, after) ==
  [after EXCEPT !.verifySignatureWithJwks = before.verifySignatureWithJwks,
                !.defaultVerify = before.defaultVerify] = before

\* C32: a pass changes nothing but the binding verifySignatureWithJwks, on
\* the exports or on the default export, of modules whose path passes the
\* filter; every other module it found in the registry, and every other
\* export of a module that passes the filter, is as it was.
C32_PassTouchesVerifyBindingsOnly ==
  patcher.last.kind # "none" =>
    /\ Len(patcher.last.after) >= Len(patcher.last.before)
    /\ \A i \in 1..Len(patcher.last.before) :
         LET before == patcher.last.before[i]
             after == patcher.last.after[i]
         IN /\ SameButVerifyBindings(before, after)
            /\ after # before => MatchesFilter(before.path)
            /\ after.defaultVerify # before.defaultVerify =>
                 before.default = "object"

\* A pass went over a module of another package that holds a function of the
\* same name, which it left alone, and over an SDK module whose function it
\* replaced, leaving the module's processSaleorWebhook as it was.
C32_Witness ==
  /\ patcher.last.kind # "none" /\ ~patcher.last.raised
  /\ \E i, j \in 1..Len(patcher.last.before) :
       /\ patcher.last.before[i].path = JosePath
       /\ patcher.last.before[i].verifySignatureWithJwks # <<>>
       /\ patcher.last.after[i] = patcher.last.before[i]
       /\ MatchesFilter(patcher.last.before[j].path)
       /\ patcher.last.after[j].verifySignatureWithJwks
            # patcher.last.before[j].verifySignatureWithJwks
       /\ patcher.last.after[j].processSaleorWebhook # <<>>
       /\ patcher.last.after[j].processSaleorWebhook
            = patcher.last.before[j].processSaleorWebhook

\* ------------------------------------------------------------------- C33
\* C33: on every string normalizeSaleorApiUrl gives what the adapter's HTTPS
\* rewrite gives; the rewrite applied to its own result changes nothing; so
\* get makes its first query under the same key for an identity normalized
\* by a handler as for the identity as it came.
C33_HandlerRewriteIsAdapterRewrite ==
  /\ (canon.enforced # <<>> /\ canon.normalized # <<>>) =>
       canon.normalized = canon.enforced
  /\ canon.again # <<>> => canon.again = canon.enforced
  /\ canon.firstKeys # <<>> => canon.firstKeys[2] = canon.firstKeys[1]

\* All was evaluated on a string that begins with the insecure marker and
\* holds it a second time: only the leading one was rewritten, once.
C33_Witness ==
  /\ canon.enforced # <<>> /\ canon.again # <<>> /\ canon.firstKeys # <<>>
  /\ canon.input[1] = HttpMarker \o HttpMarker \o HostX
  /\ canon.normalized[1] = HttpsMarker \o HttpMarker \o HostX
  /\ canon.firstKeys[1] = canon.normalized[1]

====
